---- MODULE Spec2Model ----
(***************************************************************************)
(* worker_threads_clusters: the client's node placement policy             *)
(* (src/client/Client.ts), the node's bundle cache                         *)
(* (src/server/BundlesManager.ts) and the client's bundle upload protocol  *)
(* (NodeClient.bundle).                                                    *)
(*                                                                         *)
(* Node indices are 0-based as in the source: nodes[i] of the source is   *)
(* At(nodes, i) here.  Per-core utilisation is kept in tenths (8 is 0.8). *)
(***************************************************************************)
EXTENDS Integers, Sequences, FiniteSets, TLC

VARIABLES
    choicesBehavior,      \* Client._options.choicesBehavior
    nodes,                \* Client.nodes: one NodeClient record per registered node
    _lastIndex,           \* Client._lastIndex
    spawns,               \* the spawnWorker calls made so far, in call order
    sampled,              \* a node's usage changed since the last spawnWorker call
    cachedBundledHashes,  \* BundlesManager.cachedBundledHashes (a list, duplicates kept)
    tmpDir,               \* the files of BundlesManager.tmpDir: records [name, data]
    res,                  \* the request the node handled last, with its answer
    upload,               \* per fingerprint: how far create/put_data uploads have come
    workers,              \* WorkersManager.workers: the ids of the live workers, in order
    threads,              \* every worker_threads.Worker the node created; threads[id]
    sockets,              \* the event-stream responses the node opened, in order
    controls,             \* the control-stream requests the node accepted, in order
    timers,               \* the pending grace timers (setTimeout 1 s), oldest first
    reply,                \* the worker request the node answered last
    handles,              \* the client's Worker handles, in order of construction
    pipe,                 \* a record stream cut into chunks, and the two line parsers reading it
    http,                 \* the request Server's middleware handled last, with its answer
    cpu                   \* os.cpus() times, timesBefore of helpers/cpu, and its last result

vars == <<choicesBehavior, nodes, _lastIndex, spawns, sampled,
          cachedBundledHashes, tmpDir, res, upload,
          workers, threads, sockets, controls, timers, reply, handles, pipe, http, cpu>>

clientVars == <<choicesBehavior, nodes, _lastIndex, spawns, sampled>>
serverVars == <<cachedBundledHashes, tmpDir, res, upload>>
managerVars == <<workers, threads, sockets, controls, timers, reply>>
handleVars == <<handles, pipe>>
workerVars == <<managerVars, handleVars, http, cpu>>

\* ------------------------------------------------------------------ bounds

MaxNodes == 2
\* spawnWorker calls explored: under "incremental" (whose choices are
\* determined), and under the other policies.
MaxIncrementalSpawns == 6
MaxSpawns == 4
\* create requests a node handles (its cachedBundledHashes grows with each).
MaxCached == 3
\* spawnWorker calls whose upload protocol is followed.
MaxUploads == 2

\* cachedBundledHashes.length > 10 clears the cache at construction.
CacheLimit == 10

\* ------------------------------------------------------------- data model

null == "null"

Behaviors == {"random", "incremental", "balancing"}

\* NodeUsage.cpuUsage vectors the /health endpoint may have returned.
Samples == { <<2>>, <<8>>, <<2, 8>> }

NoNode == -1

\* Bundle fingerprints and artifact bytes on the wire.
Hashes == {"h1", "h2"}
Blobs == { <<1>>, <<1, 2>> }

\* req.body of a data request: a Buffer (bodyParser.raw parsed it) or not.
Buffer(bytes) == [binary |-> TRUE, bytes |-> bytes]
NotBuffer == [binary |-> FALSE, bytes |-> <<>>]
Bodies == {Buffer(b) : b \in Blobs} \cup {NotBuffer}

\* req.query['compression']: absent, empty, or a codec name.
undefined == "undefined"
Compressions == {undefined, "", "none", "gzip"}

\* The request handled last and its answer; tick tells two equal requests apart.
Response(op, hash, body, compression, status, size, tick) ==
    [op |-> op, hash |-> hash, body |-> body, compression |-> compression,
     status |-> status, size |-> size, tick |-> tick]

\* No request handled yet.
NoResponse == Response("none", "", NotBuffer, undefined, 0, 0, 0)

\* No put_data has stored bytes under the fingerprint yet.
NotUploaded ==
    [phase |-> "none", bytes |-> <<>>,
     described |-> [status |-> 0, hash |-> "", size |-> 0]]

Range(seq) == {seq[i] : i \in 1 .. Len(seq)}

\* seq[i] of the source, with its 0-based index.
At(seq, i) == seq[i + 1]

\* `!seq[i]` of the source for a list of objects: the index is out of range.
Missing(seq, i) == i < 0 \/ i >= Len(seq)

\* NodeClient.usage is an optional NodeUsage: <<>> for null, <<cpuUsage>> for a
\* sample (workersRunning takes no part in any choice).
NullUsage == <<>>
Usage(cpuUsage) == <<cpuUsage>>

\* new NodeClient(...): usage is null until fetchInformation has answered.
NewNodeClient ==
    [usage |-> NullUsage, nodeVersion |-> null, _interval |-> null, workers |-> <<>>]

\* What the middleware and the endpoint answered: status, the
\* WWW-Authenticate header ("" when not set) and the JSON body.
Answer(op, rawAuthorization, status, wwwAuthenticate, json) ==
    [op |-> op, authorization |-> rawAuthorization, status |-> status,
     wwwAuthenticate |-> wwwAuthenticate, json |-> json]
NoRequest ==
    [op |-> "none", authorization |-> <<>>, status |-> 0, wwwAuthenticate |-> "",
     json |-> <<>>]

\* os.cpus()[i].times, of which getCPUUsage reads user, sys and idle.
Times(user, sys, idle) == [user |-> user, sys |-> sys, idle |-> idle]

\* One core that has counted nothing.
Idle == <<Times(0, 0, 0)>>

\* helpers/cpu when the module is loaded: timesBefore is the reading then.
\* usage is what getCPUUsage returned last.
ModuleLoaded(times) == [times |-> times, timesBefore |-> times, usage |-> <<>>]

\* 1 - idle / total in floating point, for counters that did not go back:
\* NaN when total, and so idle, is 0, and otherwise the fraction
\* (total - idle) / total, kept as its two terms.
NaN == [busy |-> 0, total |-> 0]
OneMinus(idle, total) ==
    IF total = 0 THEN NaN ELSE [busy |-> total - idle, total |-> total]

\* getCPUUsage()
getCPUUsage(c) ==
    LET timeDeltas == [i \in 1 .. Len(c.times) |->
            Times(c.times[i].user - c.timesBefore[i].user,
                  c.times[i].sys - c.timesBefore[i].sys,
                  c.times[i].idle - c.timesBefore[i].idle)]
    IN  [times |-> c.times, timesBefore |-> c.times,
         usage |-> [i \in 1 .. Len(timeDeltas) |->
            OneMinus(timeDeltas[i].idle,
                     timeDeltas[i].user + timeDeltas[i].sys + timeDeltas[i].idle)]]

\* ------------------------------------------------------ placement policy

RECURSIVE Sum(_)
Sum(s) == IF s = <<>> THEN 0 ELSE Head(s) + Sum(Tail(s))

\* averageCPUUsageA > averageCPUUsageB, the averages being
\* cpuUsage.reduce((a, b) => a + b) / cpuUsage.length.
AverageGreaterSum(a, b) == Sum(a) > Sum(b)
AverageGreater(a, b) == Sum(a) * Len(b) > Sum(b) * Len(a)

\* The comparator handed to sort(): negative when a goes first.
CompareAscending(a, b) ==
    IF a = NullUsage \/ b = NullUsage THEN 0
    ELSE IF AverageGreater(a[1], b[1]) THEN 1
    ELSE IF AverageGreater(b[1], a[1]) THEN -1
    ELSE 0
Compare(a, b) ==
    IF a = NullUsage \/ b = NullUsage THEN 0
    ELSE IF AverageGreater(a[1], b[1]) THEN -1
    ELSE IF AverageGreater(b[1], a[1]) THEN 1
    ELSE 0

\* Array.prototype.sort is stable: x goes before the first element that the
\* comparator puts strictly after it.
RECURSIVE Insert(_, _, _)
Insert(ns, x, sorted) ==
    IF sorted = <<>> THEN <<x>>
    ELSE IF Compare(At(ns, x).usage, At(ns, Head(sorted)).usage) < 0
         THEN <<x>> \o sorted
         ELSE <<Head(sorted)>> \o Insert(ns, x, Tail(sorted))

RECURSIVE SortFrom(_, _, _)
SortFrom(ns, rest, sorted) ==
    IF rest = <<>> THEN sorted
    ELSE SortFrom(ns, Tail(rest), Insert(ns, Head(rest), sorted))

\* this.nodes.filter((n) => n.usage != null), as the list of their indices.
RECURSIVE ReadyFrom(_, _)
ReadyFrom(ns, i) ==
    IF i >= Len(ns) THEN <<>>
    ELSE (IF At(ns, i).usage # NullUsage THEN <<i>> ELSE <<>>) \o ReadyFrom(ns, i + 1)

ReadyNodes(ns) == ReadyFrom(ns, 0)

Sorted(ns) == SortFrom(ns, ReadyNodes(ns), <<>>)

\* The outcomes of one call: [error, node, lastIndex].
Picked(n, last) == [error |-> null, node |-> n, lastIndex |-> last]

IncrementalNoWrap(ns, last) ==
    LET newIndex == IF last + 1 > Len(ns) THEN 0 ELSE last + 1
    IN  { Picked(IF Missing(ns, newIndex) THEN 0 ELSE newIndex, newIndex) }
Incremental(ns, last) ==
    LET newIndex == IF Missing(ns, last + 1) THEN 0 ELSE last + 1
    IN  { Picked(newIndex, newIndex) }

BalancingAdvancing(ns, last) ==
    LET sorted == Sorted(ns)
        newIndex_ == IF Missing(sorted, last + 1) THEN 0 ELSE last + 1
    IN  IF Len(ReadyNodes(ns)) < 1 THEN { Picked(0, newIndex_) }
        ELSE { Picked(At(sorted, newIndex_), newIndex_) }
Balancing(ns, last) ==
    LET sorted == Sorted(ns)
        newIndex_ == IF Missing(sorted, last + 1) THEN 0 ELSE last + 1
    IN  IF Len(ReadyNodes(ns)) < 1 THEN { Picked(0, last) }
        ELSE { Picked(At(sorted, newIndex_), newIndex_) }

\* Math.floor(Math.random() * this.nodes.length)
Random(ns, last) == { Picked(index, last) : index \in 0 .. Len(ns) - 1 }

FindNodeUnguarded(behavior, ns, last) ==
    IF Len(ns) < 1
    THEN { [error |-> null, node |-> NoNode, lastIndex |-> last + 1] }
    ELSE CASE behavior = "random" -> Random(ns, last)
           [] behavior = "incremental" -> Incremental(ns, last)
           [] behavior = "balancing" -> Balancing(ns, last)
_findNodeToUse(behavior, ns, last) ==
    IF Len(ns) < 1
    THEN { [error |-> "no available nodes", node |-> NoNode, lastIndex |-> last] }
    ELSE CASE behavior = "random" -> Random(ns, last)
           [] behavior = "incremental" -> Incremental(ns, last)
           [] behavior = "balancing" -> Balancing(ns, last)

\* ---------------------------------------------------------- client actions

\* Client.addNode, one node per call.
addNode ==
    /\ Len(nodes) < MaxNodes
    /\ nodes' = Append(nodes, NewNodeClient)
    /\ UNCHANGED <<choicesBehavior, _lastIndex, spawns, sampled, serverVars, workerVars>>

\* The node's Node.js version, as GET / reports it.
NodeVersion == "18"

\* A NodeClient after fetchInformation: GET / has set nodeVersion (unless
\* onlyFetchUsage, which the timer passes once a launch has set it) and
\* GET /health the usage.
Informed(n, cpuUsage) == [n EXCEPT !.nodeVersion = NodeVersion, !.usage = Usage(cpuUsage)]

\* NodeClient.fetchInformation: the /health answer replaces the cached sample.
fetchInformation ==
    /\ \E i \in 0 .. Len(nodes) - 1, s \in Samples :
          /\ At(nodes, i).usage # Usage(s)
          /\ nodes' = [nodes EXCEPT ![i + 1] = Informed(@, s)]
    /\ sampled' = TRUE
    /\ UNCHANGED <<choicesBehavior, _lastIndex, spawns, serverVars, workerVars>>

\* A spawnWorker call whose placement threw: its promise is rejected.
Rejected(error) ==
    [node |-> NoNode, pc |-> "rejected", error |-> error, nodeCount |-> 0,
     outFile |-> <<>>, hash |-> "", exists |-> FALSE, sent |-> <<>>,
     uploadedBefore |-> {}]

\* The spawnWorker calls whose put_data has been answered.
Uploaded == {j \in 1 .. Len(spawns) : "POST /bundles/:hash/data" \in Range(spawns[j].sent)}

\* A spawnWorker call that has chosen node n among count nodes and entered
\* launchWorker; sent lists its HTTP requests, uploadedBefore the calls whose
\* upload was complete when this one was made.
Launching(n, count) ==
    [node |-> n, pc |-> "launchWorker", error |-> null, nodeCount |-> count,
     outFile |-> <<>>, hash |-> "", exists |-> FALSE, sent |-> <<>>,
     uploadedBefore |-> Uploaded]

\* Client.spawnWorker up to the call of node.launchWorker.
Spawn(bound) ==
    /\ Len(spawns) < bound
    /\ \E r \in _findNodeToUse(choicesBehavior, nodes, _lastIndex) :
          /\ _lastIndex' = r.lastIndex
          /\ spawns' = Append(spawns,
                IF r.error # null THEN Rejected(r.error)
                ELSE Launching(r.node, Len(nodes)))
    /\ sampled' = FALSE
    /\ UNCHANGED <<choicesBehavior, nodes, serverVars, workerVars>>

SpawnBound == IF choicesBehavior = "incremental" THEN MaxIncrementalSpawns ELSE MaxSpawns

spawnWorker == Spawn(SpawnBound)

\* ------------------------------------------------------------ bundle cache

\* this.cachedBundledHashes.includes(hash)
Includes(list, hash) == hash \in Range(list)

\* The files named `${hash}.js` in the directory.
FilesNamed(dir, hash) == {f \in dir : f.name = hash}

\* writeFileSync(file, data): creates the file or replaces its content.
appendFileSync(dir, hash, data) ==
    IF FilesNamed(dir, hash) = {} THEN dir \cup {[name |-> hash, data |-> data]}
    ELSE {IF f.name = hash THEN [f EXCEPT !.data = @ \o data] ELSE f : f \in dir}
writeFileSync(dir, hash, data) ==
    (dir \ FilesNamed(dir, hash)) \cup {[name |-> hash, data |-> data]}

\* statSync(file).size
StatSize(dir, hash) == Len((CHOOSE f \in FilesNamed(dir, hash) : TRUE).data)

\* req.query['compression'] || 'none'
Compression(query) == IF query = undefined \/ query = "" THEN "none" ELSE query

\* compression == 'none'
WritesAnyCodec(compression) == TRUE
WritesData(compression) == compression = "none"

Tick == 1 - res.tick

\* What GET /bundles/:hash answers in a state: [status, hash, size].
Describe(list, dir, hash) ==
    IF ~Includes(list, hash) THEN [status |-> 404, hash |-> hash, size |-> 0]
    ELSE [status |-> 200, hash |-> hash, size |-> StatSize(dir, hash)]

\* upload[hash] after a create(hash): a finished upload is followed by a new slot.
AfterCreate(u) ==
    IF u.phase \in {"first", "second"} THEN [u EXCEPT !.phase = "recreated"] ELSE u

\* upload[hash] after a put_data(hash) that stored bytes; described is what
\* describe(hash) answers right after the first upload of these bytes.
AfterPut(u, bytes, described) ==
    IF u.phase = "recreated" /\ u.bytes = bytes THEN [u EXCEPT !.phase = "second"]
    ELSE [phase |-> "first", bytes |-> bytes, described |-> described]

\* POST /bundles/create
CreateOnce(hash) ==
    IF Includes(cachedBundledHashes, hash)
    THEN /\ res' = Response("create", hash, NotBuffer, undefined, 409, 0, Tick)
         /\ UNCHANGED <<tmpDir, cachedBundledHashes, upload>>
    ELSE /\ tmpDir' = writeFileSync(tmpDir, hash, <<>>)
         /\ cachedBundledHashes' = Append(cachedBundledHashes, hash)
         /\ upload' = [upload EXCEPT ![hash] = AfterCreate(@)]
         /\ res' = Response("create", hash, NotBuffer, undefined, 201, 0, Tick)
PostBundlesCreate(hash) ==
    /\ tmpDir' = writeFileSync(tmpDir, hash, <<>>)
    /\ cachedBundledHashes' = Append(cachedBundledHashes, hash)
    /\ upload' = [upload EXCEPT ![hash] = AfterCreate(@)]
    /\ res' = Response("create", hash, NotBuffer, undefined, 201, 0, Tick)

\* GET /bundles/:hash
GetBundle(hash) ==
    LET d == Describe(cachedBundledHashes, tmpDir, hash)
    IN  /\ res' = Response("describe", hash, NotBuffer, undefined, d.status, d.size, Tick)
        /\ UNCHANGED <<tmpDir, cachedBundledHashes, upload>>

\* The guards of POST /bundles/:hash/data: 404 without a slot, 400 unless the
\* body is a Buffer, and 204.
DataStatusBodyFirst(list, hash, body) ==
    IF ~body.binary THEN 400
    ELSE IF ~Includes(list, hash) THEN 404
    ELSE 204
DataStatus(list, hash, body) ==
    IF ~Includes(list, hash) THEN 404
    ELSE IF ~body.binary THEN 400
    ELSE 204

\* POST /bundles/:hash/data
PostBundleData(hash, body, query) ==
    LET status == DataStatus(cachedBundledHashes, hash, body)
    IN  /\ res' = Response("put", hash, body, query, status, 0, Tick)
        /\ IF status = 204 /\ WritesData(Compression(query))
           THEN /\ tmpDir' = writeFileSync(tmpDir, hash, body.bytes)
                /\ upload' = [upload EXCEPT ![hash] =
                      AfterPut(@, body.bytes, Describe(cachedBundledHashes, tmpDir', hash))]
                /\ UNCHANGED cachedBundledHashes
           ELSE UNCHANGED <<tmpDir, cachedBundledHashes, upload>>

\* The requests of any number of clients, handled one at a time (the handlers
\* run to completion: their file system calls are synchronous).
create ==
    /\ Len(cachedBundledHashes) < MaxCached
    /\ \E hash \in Hashes : PostBundlesCreate(hash)
    /\ UNCHANGED <<clientVars, workerVars>>

describe ==
    /\ \E hash \in Hashes : GetBundle(hash)
    /\ UNCHANGED <<clientVars, workerVars>>

put_data ==
    /\ \E hash \in Hashes, body \in Bodies, query \in Compressions :
          PostBundleData(hash, body, query)
    /\ UNCHANGED <<clientVars, workerVars>>

\* ----------------------------------------------------------------- framing

\* Text on a stream is a sequence of tokens; the token "\n" ends a record.
NL == "\n"

\* String.prototype.split(separator): the fragments between the separators.
RECURSIVE SplitBy(_, _)
SplitBy(text, separator) ==
    IF text = <<>> THEN << <<>> >>
    ELSE LET m == SplitBy(Tail(text), separator)
         IN  IF Head(text) = separator THEN << <<>> >> \o m
             ELSE << <<Head(text)>> \o Head(m) >> \o Tail(m)

\* chunk.toString().split('\n')
Split(text) == SplitBy(text, NL)

\* data.split(':'), chunks[0] and chunks[1].trimStart() of onMessage.
RECURSIVE TrimStart(_)
TrimStart(text) ==
    IF text # <<>> /\ Head(text) = " " THEN TrimStart(Tail(text)) ELSE text
Name(line) == SplitBy(line, ":")[1]
Value(line) == TrimStart(SplitBy(line, ":")[2])

\* for(let x = 0; x < m.length; x++): onMessage(buffer); buffer = ''; buffer += c
RECURSIVE DispatchEach(_, _, _)
DispatchEach(buffer, m, lines) ==
    IF m = <<>> THEN [buffer |-> buffer, lines |-> lines]
    ELSE DispatchEach(Head(m), Tail(m), Append(lines, buffer))

\* The 'data' handler of both line parsers: the pending buffer after the
\* chunk, and the lines handed to onMessage, in order.
ParsedUnbuffered(buffer, chunk) ==
    LET m == Split(chunk)
    IN  DispatchEach(Head(m), Tail(m), <<>>)
Parsed(buffer, chunk) ==
    LET m == Split(chunk)
    IN  DispatchEach(buffer \o Head(m), Tail(m), <<>>)

\* A line parser that has read nothing of the text sent to it.
Reader(text) == [rest |-> text, buffer |-> <<>>, lines |-> <<>>]

\* The parser after the next n tokens of its stream arrived as one chunk.
Read(r, n) ==
    LET p == Parsed(r.buffer, SubSeq(r.rest, 1, n))
    IN  [rest |-> SubSeq(r.rest, n + 1, Len(r.rest)), buffer |-> p.buffer,
         lines |-> r.lines \o p.lines]

\* No stream is followed token by token.
NoPipe == [written |-> <<>>, client |-> Reader(<<>>), server |-> Reader(<<>>)]

\* ------------------------------------------------------ workers: the node

\* `${name}: ${value}\n`
Line(name, value) == <<name, ":", " ", value, NL>>

\* `${worker.isOnline}` and `${exitCode}` in a template string.
BooleanString(b) == IF b THEN "true" ELSE "false"
Decimal(code) == CASE code = 0 -> "0" [] code = 1 -> "1"

\* Buffer.from(data).toString('base64')
Base64(data) ==
    CASE data = "hi" -> "aGk="
      [] data = "ping" -> "cGluZw=="
      [] data = "{name,message,stack}" -> "eyJuYW1lIjoiRXJyb3IiLCJtZXNzYWdlIjoiYm9vbSIsInN0YWNrIjoiRXJyb3I6IGJvb20ifQ=="

\* JSON.stringify({name: err.name, message: err.message, stack: err.stack})
ErrorJson == "{name,message,stack}"

\* The codes a child exits with by itself; a terminated child exits with 1.
ExitCodes == {0, 1}

\* No worker id (a request answered without one; Worker.id null).
NoId == 0

\* The reader of a response the model does not follow: some other client.
NoHandle == 0

\* randomUUID(): an id the node has not issued before.
randomUUID == Len(threads) + 1

\* The answer to a worker request; tick tells two equal requests apart.
Reply(op, bundleHash, status, id) ==
    [op |-> op, bundleHash |-> bundleHash, status |-> status, workerId |-> id,
     tick |-> 1 - reply.tick]
NoReply == [op |-> "none", bundleHash |-> "", status |-> 0, workerId |-> NoId, tick |-> 0]

\* WorkerOptions, of which the model keeps stdin: "@defaultValue false".
WorkerOptions == [stdin : BOOLEAN]
DefaultOptions == [stdin |-> FALSE]

\* createWorker: the new worker_threads.Worker with its three added fields.
\* stdin tells whether worker.stdin is a stream (the option stdin: true) or
\* null; input is what was written to it, received what was posted to the
\* thread.
NewWorker(id, bundleHash, extra) ==
    [id |-> id, hash |-> bundleHash, isOnline |-> FALSE, numOfConnectedSockets |-> 0,
     status |-> "pending", terminated |-> FALSE, posted |-> 0,
     stdin |-> extra.stdin, input |-> <<>>, received |-> <<>>, emitted |-> <<>>]

\* A 'data' event of the child's stdout or stderr, or a 'message' event.
Emitted(name, data) == [name |-> name, data |-> data]

\* this.workers.findIndex((w) => w.id == id): 0-based, -1 when absent.
FindIndex(list, id) ==
    IF \E i \in 1 .. Len(list) : list[i] = id
    THEN (CHOOSE i \in 1 .. Len(list) :
              list[i] = id /\ \A j \in 1 .. i - 1 : list[j] # id) - 1
    ELSE -1

\* list.splice(index, 1): a negative index counts from the end of the list.
Splice(list, index) ==
    LET start == IF index >= 0 THEN index
                 ELSE IF Len(list) + index < 0 THEN 0 ELSE Len(list) + index
    IN  IF start >= Len(list) THEN list
        ELSE SubSeq(list, 1, start) \o SubSeq(list, start + 2, Len(list))

\* createWorker's onExit, the listener of both 'error' and 'exit'.
onExitKept(list, id) == list
onExit(list, id) == Splice(list, FindIndex(list, id))

\* this.workers.find((w) => w.id == req.params.id)
Find(list, id) == \E i \in 1 .. Len(list) : list[i] = id

\* res.write(text) and res.end(text) on an event-stream response: a response
\* that has ended takes no more data.  What another client is sent is not kept.
Write(s, text) ==
    IF s.state = "open" /\ s.reader # NoHandle THEN [s EXCEPT !.out = @ \o text] ELSE s
EndLeftOpen(s, text) == Write(s, text)
End(s, text) ==
    IF s.state = "open" THEN [Write(s, text) EXCEPT !.state = "ended"] ELSE s

\* The listeners pipeWorkerReadStreams attached for worker w, each called:
\* res.write(text), or res.end(text) for the listeners of 'exit' and 'error'.
EachToFirst(w, ends, text) ==
    [i \in 1 .. Len(sockets) |->
        IF sockets[i].worker = w /\ sockets[i].state # "closed"
           /\ \A j \in 1 .. i - 1 : sockets[j].worker # w
        THEN (IF ends THEN End(sockets[i], text) ELSE Write(sockets[i], text))
        ELSE sockets[i]]
Each(w, ends, text) ==
    [i \in 1 .. Len(sockets) |->
        IF sockets[i].worker = w /\ sockets[i].state # "closed"
        THEN (IF ends THEN End(sockets[i], text) ELSE Write(sockets[i], text))
        ELSE sockets[i]]

\* pipeWorkerWriteStreams' exit listener (of 'exit' and 'error'): res.end().
EndControls(w) ==
    [i \in 1 .. Len(controls) |->
        IF controls[i].worker = w /\ controls[i].state = "open"
        THEN [controls[i] EXCEPT !.state = "ended"] ELSE controls[i]]

\* pipeWorkerReadStreams up to the close handler: the response opened for a
\* reader, the current online flag written to it.
StreamOnlineUnread(w, exitOnRequestEnd, reader, isOnline) ==
    Write([worker |-> w, exitOnRequestEnd |-> exitOnRequestEnd, state |-> "open",
           reader |-> reader, out |-> <<>>],
          Line("online", BooleanString(FALSE)))
Stream(w, exitOnRequestEnd, reader, isOnline) ==
    Write([worker |-> w, exitOnRequestEnd |-> exitOnRequestEnd, state |-> "open",
           reader |-> reader, out |-> <<>>],
          Line("online", BooleanString(isOnline)))

\* worker.numOfConnectedSockets += 1
PipedUncounted(worker) == worker
Piped(worker) == [worker EXCEPT !.numOfConnectedSockets = @ + 1]

\* A grace timer of worker w, set when response i closed; reattached records
\* whether a reader attached to the worker since.
Timer(w, i) == [worker |-> w, socket |-> i, reattached |-> FALSE]
Reattached(list, w) ==
    [i \in 1 .. Len(list) |->
        IF list[i].worker = w THEN [list[i] EXCEPT !.reattached = TRUE] ELSE list[i]]

\* A thread that has not exited: what is posted or written to a thread that
\* has exited is lost.
Running(worker) == worker.status \in {"pending", "online"}

\* worker.terminate(): stops a running thread, its 'exit' follows.
Terminate(worker) ==
    IF Running(worker) THEN [worker EXCEPT !.terminated = TRUE]
    ELSE worker

\* this.bundlesManager.cachedBundledHashes.includes(bundleHash)
AnyBundle(bundleHash) == TRUE
BundleCached(bundleHash) == Includes(cachedBundledHashes, bundleHash)

\* POST /worker
PostWorker(bundleHash, extraData, exitOnRequestEnd, reader) ==
    IF ~BundleCached(bundleHash)
    THEN /\ reply' = Reply("POST /worker", bundleHash, 400, NoId)
         /\ UNCHANGED <<workers, threads, sockets, controls, timers>>
    ELSE LET id == randomUUID
         IN  /\ threads' = Append(threads, Piped(NewWorker(id, bundleHash, extraData)))
             /\ workers' = Append(workers, id)
             /\ sockets' = Append(sockets, Stream(id, exitOnRequestEnd, reader, FALSE))
             /\ reply' = Reply("POST /worker", bundleHash, 200, id)
             /\ UNCHANGED <<controls, timers>>

\* GET /worker/:id/streams-pipe
GetStreamsPipe(id, query, reader) ==
    IF ~Find(workers, id)
    THEN /\ reply' = Reply("GET /worker/:id/streams-pipe", "", 404, NoId)
         /\ UNCHANGED <<workers, threads, sockets, controls, timers>>
    ELSE /\ threads' = [threads EXCEPT ![id] = Piped(@)]
         /\ sockets' = Append(sockets,
               Stream(id, query # undefined, reader, threads[id].isOnline))
         /\ timers' = Reattached(timers, id)
         /\ reply' = Reply("GET /worker/:id/streams-pipe", "", 200, id)
         /\ UNCHANGED <<workers, controls>>

\* worker.numOfConnectedSockets == 0
StillConnected(worker) == worker.numOfConnectedSockets # 0
Disconnected(worker) == worker.numOfConnectedSockets = 0

\* The close handler of an event-stream response (the reader went away, or
\* the response has ended).
CloseSchedulesAlways(i) ==
    LET s == sockets[i]
        closed == [threads[s.worker] EXCEPT !.numOfConnectedSockets = @ - 1]
    IN  /\ s.state \in {"open", "ended"}
        /\ threads' = [threads EXCEPT ![s.worker] = closed]
        /\ timers' = IF s.exitOnRequestEnd
                     THEN Append(timers, Timer(s.worker, i)) ELSE timers
        /\ sockets' = [sockets EXCEPT ![i].state = "closed"]
        /\ UNCHANGED <<workers, controls, reply>>
Close(i) ==
    LET s == sockets[i]
        closed == [threads[s.worker] EXCEPT !.numOfConnectedSockets = @ - 1]
    IN  /\ s.state \in {"open", "ended"}
        /\ threads' = [threads EXCEPT ![s.worker] = closed]
        /\ timers' = IF s.exitOnRequestEnd /\ closed.numOfConnectedSockets = 0
                     THEN Append(timers, Timer(s.worker, i)) ELSE timers
        /\ sockets' = [sockets EXCEPT ![i].state = "closed"]
        /\ UNCHANGED <<workers, controls, reply>>

\* The callback of the oldest grace timer, 1 s after the closure that set it.
GraceElapsed ==
    LET w == Head(timers).worker
    IN  /\ threads' = IF Disconnected(threads[w])
                      THEN [threads EXCEPT ![w] = Terminate(@)] ELSE threads
        /\ timers' = Tail(timers)
        /\ UNCHANGED <<workers, sockets, controls, reply>>

\* The child-process host: the thread starts executing ('online').
Online(w) ==
    /\ threads[w].status = "pending" /\ ~threads[w].terminated
    /\ threads' = [threads EXCEPT ![w].status = "online", ![w].isOnline = TRUE]
    /\ sockets' = Each(w, FALSE, Line("online", "true"))
    /\ UNCHANGED <<workers, controls, timers, reply>>

\* The thread posts a message to its parent ('message').
Message(w, data) ==
    /\ threads[w].status = "online" /\ ~threads[w].terminated
    /\ threads' = [threads EXCEPT ![w].posted = @ + 1,
                                   ![w].emitted = Append(@, Emitted("message", data))]
    /\ sockets' = Each(w, FALSE, Line("message", Base64(data)))
    /\ UNCHANGED <<workers, controls, timers, reply>>

\* The thread writes a chunk to its stdout or stderr ('data' of worker.stdout
\* or worker.stderr).
Chunk(w, name, data) ==
    /\ threads[w].status = "online" /\ ~threads[w].terminated
    /\ threads' = [threads EXCEPT ![w].emitted = Append(@, Emitted(name, data))]
    /\ sockets' = Each(w, FALSE, Line(name, Base64(data)))
    /\ UNCHANGED <<workers, controls, timers, reply>>

\* The thread throws an uncaught exception ('error', then 'exit' with code 1).
Fault(w) ==
    /\ threads[w].status \in {"pending", "online"} /\ ~threads[w].terminated
    /\ threads' = [threads EXCEPT ![w].status = "faulted"]
    /\ workers' = onExit(workers, w)
    /\ sockets' = Each(w, TRUE, Line("error", Base64(ErrorJson)))
    /\ controls' = EndControls(w)
    /\ UNCHANGED <<timers, reply>>

\* The thread has stopped ('exit'): by itself, after terminate(), or after an
\* uncaught exception.
Exit(w, code) ==
    /\ threads[w].status \in {"pending", "online", "faulted"}
    /\ (threads[w].terminated \/ threads[w].status = "faulted") => code = 1
    /\ threads' = [threads EXCEPT ![w].status = "exited"]
    /\ workers' = onExit(workers, w)
    /\ sockets' = Each(w, TRUE, Line("exit", Decimal(code)))
    /\ controls' = EndControls(w)
    /\ UNCHANGED <<timers, reply>>

\* new WorkersManager(server, bundlesManager): no worker, nothing connected.
WorkersManagerNew ==
    /\ workers = <<>>
    /\ threads = <<>>
    /\ sockets = <<>>
    /\ controls = <<>>
    /\ timers = <<>>
    /\ reply = NoReply

\* ------------------------------------------------------- placement: spec

\* A node that takes no part: nothing cached, no request handled.
InitServerIdle ==
    /\ cachedBundledHashes = <<>>
    /\ tmpDir = {}
    /\ res = NoResponse
    /\ upload = [h \in Hashes |-> NotUploaded]
    /\ WorkersManagerNew
    /\ http = NoRequest
    /\ cpu = ModuleLoaded(Idle)

\* new Client(options): no node, cursor -1.
InitPlacement ==
    /\ choicesBehavior \in Behaviors
    /\ nodes = <<>>
    /\ _lastIndex = -1
    /\ spawns = <<>>
    /\ sampled = FALSE
    /\ handles = <<>>
    /\ pipe = NoPipe
    /\ InitServerIdle

NextPlacement == addNode \/ fetchInformation \/ spawnWorker

SpecPlacement == InitPlacement /\ [][NextPlacement]_vars

\* ----------------------------------------------------- placement: claims

Last(seq) == seq[Len(seq)]

\* The spawnWorker calls that chose a node, in call order.
Launched == SelectSeq(spawns, LAMBDA s : s.error = null)

\* A spawnWorker call is made in this step.
Spawning == Len(spawns') = Len(spawns) + 1

TimesChosen(n, k) == Cardinality({j \in 1 .. k : Launched[j].node = n})

\* C1: under "incremental", as long as every spawn so far chose among the
\* same N registered nodes, the k-th spawn selects node (k - 1) mod N, and
\* after N * M spawns every node has been chosen exactly M times.
C1_IncrementalRegistrationOrder ==
    choicesBehavior = "incremental" =>
        \A k \in 1 .. Len(Launched) :
            LET N == Launched[k].nodeCount
            IN  (\A j \in 1 .. k : Launched[j].nodeCount = N) =>
                    /\ Launched[k].node = (k - 1) % N
                    /\ k % N = 0 =>
                          \A n \in 0 .. N - 1 : TimesChosen(n, k) = k \div N

\* Two nodes, six spawns: n0, n1, n0, n1, n0, n1.
C1_Witness ==
    /\ choicesBehavior = "incremental"
    /\ Len(Launched) = 6
    /\ \A j \in 1 .. 6 : Launched[j].nodeCount = 2
    /\ TimesChosen(0, 6) = 3 /\ TimesChosen(1, 6) = 3

\* The nodes that have a load sample.
SampledNodes == {i \in 0 .. Len(nodes) - 1 : At(nodes, i).usage # NullUsage}

\* Node i has a strictly higher mean per-core utilisation than node j.
HigherMean(i, j) ==
    LET a == At(nodes, i).usage[1]
        b == At(nodes, j).usage[1]
    IN  Sum(a) * Len(b) > Sum(b) * Len(a)

\* The place of sampled node i in the order by descending mean, equal means
\* in registration order: the number of sampled nodes that go before it.
Place(i) ==
    Cardinality({j \in SampledNodes :
                    HigherMean(j, i) \/ (~HigherMean(i, j) /\ j < i)})

C2_Step ==
    (choicesBehavior = "balancing" /\ Spawning /\ SampledNodes # {}) =>
        LET pick == Last(spawns').node
        IN  /\ pick \in SampledNodes
            /\ _lastIndex = -1 => Place(pick) = 0
            /\ (spawns # <<>> /\ ~sampled) =>
                  Place(pick) = (Place(Last(spawns).node) + 1) % Cardinality(SampledNodes)

C3_Step ==
    (choicesBehavior = "balancing" /\ Spawning /\ nodes # <<>> /\ SampledNodes = {}) =>
        /\ Last(spawns').error = null
        /\ Last(spawns').node = 0
        /\ _lastIndex' = _lastIndex

\* C3: under "balancing" with nodes registered and none of them sampled, a
\* spawn selects the first registered node and leaves the cursor unchanged.
C3_BalancingFallsBackToFirst == [][C3_Step]_vars

C3_Witness ==
    /\ choicesBehavior = "balancing"
    /\ Len(nodes) = 2
    /\ SampledNodes = {}
    /\ Len(spawns) = 2
    /\ spawns[1].node = 0 /\ spawns[2].node = 0
    /\ _lastIndex = -1

C4_Step ==
    (Spawning /\ nodes = <<>>) =>
        /\ Last(spawns').error = "no available nodes"
        /\ Last(spawns').node = NoNode
        /\ Last(spawns').pc = "rejected"
        /\ UNCHANGED <<_lastIndex, nodes, serverVars>>

\* C4: with no node registered, under every policy, spawnWorker is rejected
\* with 'no available nodes'; the call chooses no node, never enters
\* launchWorker, and changes neither the cursor nor anything on a node.
C4_NoAvailableNodes == [][C4_Step]_vars

C4_Witness ==
    /\ nodes = <<>>
    /\ Len(spawns) = 2
    /\ \A k \in 1 .. 2 : spawns[k].error = "no available nodes" /\ spawns[k].pc = "rejected"
    /\ _lastIndex = -1

\* ------------------------------------------------------ bundle cache: spec

\* A client that takes no part.
InitClientIdle ==
    /\ choicesBehavior = "random"
    /\ nodes = <<>>
    /\ _lastIndex = -1
    /\ spawns = <<>>
    /\ sampled = FALSE
    /\ handles = <<>>
    /\ pipe = NoPipe

\* getCachedBundledHashes: one hash per file of the directory.
RECURSIVE HashesOf(_)
HashesOf(dir) ==
    IF dir = {} THEN <<>>
    ELSE LET f == CHOOSE g \in dir : TRUE
         IN  <<f.name>> \o HashesOf(dir \ {f})

\* The constructor of BundlesManager over a directory holding dir: the index
\* it reads and, past the limit, clearAllCachedBundles.
StartupAtLimit(dir) ==
    IF Len(HashesOf(dir)) >= CacheLimit
    THEN [cachedBundledHashes |-> <<>>, tmpDir |-> {}]
    ELSE [cachedBundledHashes |-> HashesOf(dir), tmpDir |-> dir]
Startup(dir) ==
    IF Len(HashesOf(dir)) > CacheLimit
    THEN [cachedBundledHashes |-> <<>>, tmpDir |-> {}]
    ELSE [cachedBundledHashes |-> HashesOf(dir), tmpDir |-> dir]

\* new BundlesManager(server) over a scratch directory holding dir.
BundlesManagerOver(dir) ==
    /\ cachedBundledHashes = Startup(dir).cachedBundledHashes
    /\ tmpDir = Startup(dir).tmpDir

InitBundles ==
    /\ InitClientIdle
    /\ BundlesManagerOver({})
    /\ res = NoResponse
    /\ upload = [h \in Hashes |-> NotUploaded]
    /\ WorkersManagerNew
    /\ http = NoRequest
    /\ cpu = ModuleLoaded(Idle)

NextBundles == create \/ describe \/ put_data

SpecBundles == InitBundles /\ [][NextBundles]_vars

\* ---------------------------------------------------------- workers: spec

\* Workers created and event streams opened on the node.
MaxWorkers == 2
MaxSockets == 2

\* req.query['exitOnRequestEnd']: absent or present.
Queries == {undefined, ""}

\* The requests of clients the model does not follow, the callbacks of the
\* node's timers and the events of its children, one at a time.
postWorker ==
    /\ Len(threads) < MaxWorkers /\ Len(sockets) < MaxSockets
    /\ \E bundleHash \in Hashes, exitOnRequestEnd \in BOOLEAN :
          PostWorker(bundleHash, DefaultOptions, exitOnRequestEnd, NoHandle)
    /\ UNCHANGED <<clientVars, serverVars, handleVars, http, cpu>>

getStreamsPipe ==
    /\ Len(sockets) < MaxSockets
    /\ \E id \in 1 .. MaxWorkers, query \in Queries : GetStreamsPipe(id, query, NoHandle)
    /\ UNCHANGED <<clientVars, serverVars, handleVars, http, cpu>>

close ==
    /\ \E i \in 1 .. Len(sockets) : Close(i)
    /\ UNCHANGED <<clientVars, serverVars, handleVars, http, cpu>>

timeout ==
    /\ timers # <<>>
    /\ GraceElapsed
    /\ UNCHANGED <<clientVars, serverVars, handleVars, http, cpu>>

online ==
    /\ \E w \in 1 .. Len(threads) : Online(w)
    /\ UNCHANGED <<clientVars, serverVars, handleVars, http, cpu>>

fault ==
    /\ \E w \in 1 .. Len(threads) : Fault(w)
    /\ UNCHANGED <<clientVars, serverVars, handleVars, http, cpu>>

exit ==
    /\ \E w \in 1 .. Len(threads), code \in ExitCodes : Exit(w, code)
    /\ UNCHANGED <<clientVars, serverVars, handleVars, http, cpu>>

\* A node started over a scratch directory that holds the bundle h1.
InitWorkers ==
    /\ InitClientIdle
    /\ BundlesManagerOver({[name |-> "h1", data |-> <<1>>]})
    /\ res = NoResponse
    /\ upload = [h \in Hashes |-> NotUploaded]
    /\ WorkersManagerNew
    /\ http = NoRequest
    /\ cpu = ModuleLoaded(Idle)

NextWorkers == postWorker \/ getStreamsPipe \/ close \/ timeout \/ online \/ fault \/ exit

SpecWorkers == InitWorkers /\ [][NextWorkers]_vars

\* -------------------------------------------------------- workers: claims

\* The worker request answered in this step.
Answered(op) == reply'.tick # reply.tick /\ reply'.op = op

\* The ids the node has issued.
Issued == {threads[w].id : w \in 1 .. Len(threads)}

C11_Step ==
    Answered("POST /worker") =>
        IF ~Includes(cachedBundledHashes, reply'.bundleHash)
        THEN /\ reply'.status = 400
             /\ threads' = threads
             /\ workers' = workers
        ELSE /\ reply'.status = 200
             /\ Len(threads') = Len(threads) + 1
             /\ SubSeq(threads', 1, Len(threads)) = threads
             /\ Last(threads').id = reply'.workerId
             /\ workers' = Append(workers, reply'.workerId)
             /\ reply'.workerId \notin Issued

\* C11: POST /worker with a fingerprint that is not cached is answered 400,
\* creates no child and leaves the live-worker list as it was; with a cached
\* fingerprint it is answered 200, creates exactly one child, appends it to
\* the live-worker list and returns an id the node has not issued before.
C11_PostWorker == [][C11_Step]_vars

\* A second worker was created after the first had exited.
C11_Witness ==
    /\ reply.op = "POST /worker" /\ reply.status = 200 /\ reply.workerId = 2
    /\ Len(threads) = 2 /\ threads[1].status = "exited"
    /\ workers = <<2>>

\* The grace timer whose callback runs in this step.
Elapsing == timers # <<>> /\ timers' = Tail(timers)

\* Event-stream response i closes in this step.
Closing(i) == sockets[i].state # "closed" /\ sockets'[i].state = "closed"

C12_Step ==
    /\ \A i \in 1 .. Len(sockets) :
          LET w == sockets[i].worker
          IN  (Closing(i) /\ sockets[i].exitOnRequestEnd
                          /\ threads'[w].numOfConnectedSockets = 0) =>
                  /\ Len(timers') = Len(timers) + 1
                  /\ Last(timers') = Timer(w, i)
    /\ (Elapsing /\ ~Head(timers).reattached) =>
          LET w == Head(timers).worker
          IN  \/ threads'[w].terminated
              \/ threads[w].status \in {"faulted", "exited"}

Creating(w) == CHOOSE i \in 1 .. Len(sockets) :
                  sockets[i].worker = w /\ \A j \in 1 .. i - 1 : sockets[j].worker # w

C13_Step ==
    (Elapsing /\ Head(timers).reattached
              /\ Head(timers).socket = Creating(Head(timers).worker)) =>
        LET w == Head(timers).worker
        IN  threads'[w].terminated = threads[w].terminated

\* C13: when the grace timer set by the closure of a creating stream elapses,
\* and a reader attached by GET /worker/{id}/streams-pipe between the closure
\* and this moment, terminate() is not called on the child.  (The code calls
\* it when that reader has gone again.)
C13_ReattachCancels == [][C13_Step]_vars

\* ---------------------------------------------------------- bundle upload

\* calculateFileHash(outFile): the SHA-1 of the bundle, one per content.
Sha1(bytes) == CASE bytes = <<1>> -> "h1" [] bytes = <<1, 2>> -> "h2"

\* axios resolves on a 2xx status and rejects otherwise.
Resolves(status) == status >= 200 /\ status < 300

\* const exists = await this.http.get(...).catch(() => false); if(!exists) ...
UploadAlways(exists) == TRUE
UploadNeeded(exists) == ~exists

\* spawnWorker call k moves on: its record changes, nothing else of the client.
Step(k, record) ==
    /\ spawns' = [spawns EXCEPT ![k] = record]
    /\ UNCHANGED <<choicesBehavior, _lastIndex>>

Sent(s, request) == [s EXCEPT !.sent = Append(@, request)]

\* NodeClient.bundle, line 86-89: the probe GET / answers or fails.
testConnectionUnchecked(k) ==
    LET s == spawns[k]
    IN  /\ s.pc = "launchWorker"
        /\ \/ Step(k, [Sent(s, "GET /") EXCEPT !.pc =
                  IF At(nodes, s.node).nodeVersion = null THEN "fetchInformation"
                  ELSE "build"])
           \/ Step(k, [Sent(s, "GET /") EXCEPT !.pc = "build",
                  !.error = "Could not connect to node. Please verify that the server is running."])
        /\ UNCHANGED <<nodes, sampled, serverVars, workerVars>>
testConnection(k) ==
    LET s == spawns[k]
    IN  /\ s.pc = "launchWorker"
        /\ \/ Step(k, [Sent(s, "GET /") EXCEPT !.pc =
                  IF At(nodes, s.node).nodeVersion = null THEN "fetchInformation"
                  ELSE "build"])
           \/ Step(k, [Sent(s, "GET /") EXCEPT !.pc = "rejected",
                  !.error = "Could not connect to node. Please verify that the server is running."])
        /\ UNCHANGED <<nodes, sampled, serverVars, workerVars>>

\* NodeClient.bundle, line 89: await this.fetchInformation().
awaitFetchInformation(k) ==
    LET s == spawns[k]
    IN  /\ s.pc = "fetchInformation"
        /\ \E cpuUsage \in Samples :
              nodes' = [nodes EXCEPT ![s.node + 1] = Informed(@, cpuUsage)]
        /\ sampled' = TRUE
        /\ Step(k, [Sent(Sent(Sent(s, "GET /"), "GET /"), "GET /health") EXCEPT !.pc = "build"])
        /\ UNCHANGED <<serverVars, workerVars>>

\* NodeClient.bundle, line 91-103: esbuild writes outFile, its hash is taken.
build(k) ==
    LET s == spawns[k]
    IN  /\ s.pc = "build"
        /\ \E bytes \in Blobs :
              Step(k, [s EXCEPT !.outFile = bytes, !.hash = Sha1(bytes), !.pc = "describe"])
        /\ UNCHANGED <<nodes, sampled, serverVars, workerVars>>

\* NodeClient.bundle, line 104-105: GET /bundles/${hash}.
getBundle(k) ==
    LET s == spawns[k]
    IN  /\ s.pc = "describe"
        /\ GetBundle(s.hash)
        /\ Step(k, [Sent(s, "GET /bundles/:hash") EXCEPT
                  !.exists = Resolves(res'.status),
                  !.pc = IF UploadNeeded(Resolves(res'.status)) THEN "create" ELSE "rmSync"])
        /\ UNCHANGED <<nodes, sampled, workerVars>>

\* NodeClient.bundle, line 106: POST /bundles/create.
postCreate(k) ==
    LET s == spawns[k]
    IN  /\ s.pc = "create"
        /\ PostBundlesCreate(s.hash)
        /\ Step(k, [Sent(s, "POST /bundles/create") EXCEPT
                  !.pc = IF Resolves(res'.status) THEN "data" ELSE "rejected",
                  !.error = IF Resolves(res'.status) THEN null ELSE "Request failed"])
        /\ UNCHANGED <<nodes, sampled, workerVars>>

\* NodeClient.bundle, line 107-111: POST /bundles/${hash}/data?compression=none.
postData(k) ==
    LET s == spawns[k]
    IN  /\ s.pc = "data"
        /\ PostBundleData(s.hash, Buffer(s.outFile), "none")
        /\ Step(k, [Sent(s, "POST /bundles/:hash/data") EXCEPT
                  !.pc = IF Resolves(res'.status) THEN "rmSync" ELSE "rejected",
                  !.error = IF Resolves(res'.status) THEN null ELSE "Request failed"])
        /\ UNCHANGED <<nodes, sampled, workerVars>>

\* NodeClient.bundle, line 114-115: rmSync(outFile); return hash.
rmSync(k) ==
    LET s == spawns[k]
    IN  /\ s.pc = "rmSync"
        /\ Step(k, [s EXCEPT !.outFile = <<>>, !.pc = "bundled"])
        /\ UNCHANGED <<nodes, sampled, serverVars, workerVars>>

\* ---------------------------------------------------- bundle cache: claims

\* The request handled in this step.
Handled(op) == res'.tick # res.tick /\ res'.op = op

Count(list, hash) == Cardinality({i \in 1 .. Len(list) : list[i] = hash})

FileData(dir, hash) == (CHOOSE f \in FilesNamed(dir, hash) : TRUE).data

\* C5: a describe(h) answered while no put_data(h) has stored bytes yet is
\* answered 404.  (The code answers 200 with size 0 once create(h) ran.)
C5_DescribeAbsentUntilPut ==
    (res.op = "describe" /\ upload[res.hash].phase = "none") => res.status = 404

\* C6: every create(h) is answered 201 and leaves exactly one file for h, in
\* the index; after two or more create(h), a put_data(h, A) with a binary
\* body is answered 204 and (compression none) the one file of h holds A.
C6_IdempotentCreate ==
    /\ res.op = "create" =>
          /\ res.status = 201
          /\ Includes(cachedBundledHashes, res.hash)
          /\ Cardinality(FilesNamed(tmpDir, res.hash)) = 1
    /\ (res.op = "put" /\ res.body.binary /\ Count(cachedBundledHashes, res.hash) >= 2) =>
          /\ res.status = 204
          /\ Cardinality(FilesNamed(tmpDir, res.hash)) = 1
          /\ res.compression \in {undefined, "none"} =>
                FileData(tmpDir, res.hash) = res.body.bytes

\* create(h1), create(h1), put_data(h1, <<1, 2>>).
C6_Witness ==
    /\ res.op = "put" /\ res.hash = "h1" /\ res.status = 204
    /\ res.body = Buffer(<<1, 2>>)
    /\ cachedBundledHashes = <<"h1", "h1">>
    /\ tmpDir = {[name |-> "h1", data |-> <<1, 2>>]}

C7_Step ==
    Handled("put") =>
        LET h == res'.hash
        IN  IF ~Includes(cachedBundledHashes, h)
            THEN res'.status = 404 /\ tmpDir' = tmpDir
            ELSE IF ~res'.body.binary
            THEN res'.status = 400 /\ tmpDir' = tmpDir
            ELSE /\ res'.status = 204
                 /\ res'.compression \in {undefined, "none"} =>
                       /\ FileData(tmpDir', h) = res'.body.bytes
                       /\ Cardinality(FilesNamed(tmpDir', h)) = 1

\* C7: put_data(h, body) answers 404 and writes nothing when h has no slot,
\* 400 and writes nothing when h has a slot and the body is no Buffer, and
\* 204 otherwise, the file of h then holding the body (compression none or
\* omitted).
C7_PutDataStatus == [][C7_Step]_vars

\* A put_data without a compression parameter was answered 204, its body stored.
C7_Witness ==
    /\ res.op = "put" /\ res.status = 204 /\ res.compression = undefined
    /\ res.body = Buffer(<<1, 2>>)
    /\ FileData(tmpDir, res.hash) = <<1, 2>>

C8_Step ==
    (Handled("put") /\ res'.compression \notin {undefined, "", "none"}) =>
        tmpDir' = tmpDir

C9_UploadTwice ==
    \A h \in Hashes :
        upload[h].phase = "second" =>
            /\ Cardinality(FilesNamed(tmpDir, h)) = 1
            /\ Describe(cachedBundledHashes, tmpDir, h) = upload[h].described
            /\ upload[h].described = [status |-> 200, hash |-> h, size |-> Len(upload[h].bytes)]

C9_Witness ==
    /\ upload["h1"].phase = "second"
    /\ upload["h1"].bytes = <<1, 2>>
    /\ cachedBundledHashes = <<"h1", "h1">>
    /\ res.op = "put"

\* --------------------------------------------------- bundle upload: claims

\* The bundle-cache requests spawnWorker call k has sent, in order.
BundleRequests(k) ==
    SelectSeq(spawns[k].sent, LAMBDA r : r \in
        {"GET /bundles/:hash", "POST /bundles/create", "POST /bundles/:hash/data"})

Puts(k) == Cardinality({i \in 1 .. Len(spawns[k].sent) :
                           spawns[k].sent[i] = "POST /bundles/:hash/data"})

\* C10: a call whose describe was answered 2xx sends neither create nor
\* put_data; a call whose describe missed has, once its upload is over, sent
\* create and then one put_data; and of two calls with the same bundle on the
\* same node, the second made after the first's put_data was answered, the
\* pair sends exactly one put_data.
C10_UploadOnlyOnMiss ==
    \A k \in 1 .. Len(spawns) :
        LET s == spawns[k]
        IN  /\ (s.pc \in {"create", "data", "rmSync", "bundled"} /\ s.exists) =>
                  BundleRequests(k) = <<"GET /bundles/:hash">>
            /\ (s.pc \in {"rmSync", "bundled"} /\ ~s.exists) =>
                  BundleRequests(k) =
                      <<"GET /bundles/:hash", "POST /bundles/create", "POST /bundles/:hash/data">>
            /\ Puts(k) <= 1
            /\ \A a \in s.uploadedBefore :
                  (s.pc \in {"rmSync", "bundled"} /\ spawns[a].hash = s.hash
                                                  /\ spawns[a].node = s.node) =>
                      Puts(a) + Puts(k) = 1

\* Two calls with the same bundle, the second made after the first's upload.
C10_Witness ==
    /\ Len(spawns) = 2
    /\ spawns[1].pc = "bundled" /\ spawns[2].pc = "bundled"
    /\ spawns[1].hash = "h2" /\ spawns[2].hash = "h2"
    /\ spawns[2].uploadedBefore = {1}
    /\ Puts(1) = 1 /\ Puts(2) = 0
    /\ spawns[2].exists

\* ------------------------------------------------------------ framing: spec

\* Records written to one stream.
MaxRecords == 2

\* Well-formed records `name: value`, a token per character: a payload of
\* one character, of two, and an empty one.
Records == { <<"a", ":", " ", "1">>, <<"b", ":", " ", "2", "3">>, <<"c", ":", " ">> }

RECURSIVE RecordSeqs(_)
RecordSeqs(n) ==
    IF n = 0 THEN { <<>> }
    ELSE RecordSeqs(n - 1) \cup
         {Append(w, r) : w \in {v \in RecordSeqs(n - 1) : Len(v) = n - 1}, r \in Records}

\* The text of the records, each followed by "\n".
RECURSIVE Text(_)
Text(written) == IF written = <<>> THEN <<>> ELSE Head(written) \o <<NL>> \o Text(Tail(written))

\* Worker.processReadPipes: this._pipes[0].on('data', ...), the chunk being
\* the next n tokens of the stream.
clientData ==
    /\ \E n \in 1 .. Len(pipe.client.rest) : pipe' = [pipe EXCEPT !.client = Read(@, n)]
    /\ UNCHANGED <<clientVars, serverVars, managerVars, handles, http, cpu>>

\* pipeWorkerWriteStreams: req.on('data', ...).
serverData ==
    /\ \E n \in 1 .. Len(pipe.server.rest) : pipe' = [pipe EXCEPT !.server = Read(@, n)]
    /\ UNCHANGED <<clientVars, serverVars, managerVars, handles, http, cpu>>

\* Any records, written to an event stream and to a control stream.
InitFraming ==
    /\ choicesBehavior = "random"
    /\ nodes = <<>>
    /\ _lastIndex = -1
    /\ spawns = <<>>
    /\ sampled = FALSE
    /\ handles = <<>>
    /\ InitServerIdle
    /\ \E written \in RecordSeqs(MaxRecords) :
          pipe = [written |-> written, client |-> Reader(Text(written)),
                  server |-> Reader(Text(written))]

NextFraming == clientData \/ serverData

SpecFraming == InitFraming /\ [][NextFraming]_vars

\* ---------------------------------------------------------- framing: claims

\* What a parser has been handed so far.
Consumed(r) ==
    SubSeq(Text(pipe.written), 1, Len(Text(pipe.written)) - Len(r.rest))

Newlines(text) == Cardinality({i \in 1 .. Len(text) : text[i] = NL})

\* The tokens after the last "\n" of a text.
Held(text) ==
    LET ends == {i \in 1 .. Len(text) : text[i] = NL}
        last == IF ends = {} THEN 0 ELSE CHOOSE i \in ends : \A j \in ends : j <= i
    IN  SubSeq(text, last + 1, Len(text))

\* C20: however the text of the written records is cut into chunks, each of
\* the two parsers has dispatched exactly the records whose "\n" it has been
\* handed, once each and in the order written, and holds the fragment after
\* the last "\n"; with the whole text handed over, it has dispatched all the
\* records and holds nothing.
C20_FramingAnyChunks ==
    \A r \in {pipe.client, pipe.server} :
        /\ r.lines = SubSeq(pipe.written, 1, Newlines(Consumed(r)))
        /\ r.buffer = Held(Consumed(r))
        /\ r.rest = <<>> => (r.lines = pipe.written /\ r.buffer = <<>>)

\* Two records: the client parser has read them all, the server parser has
\* dispatched the first and holds a fragment of the second.
C20_Witness ==
    /\ pipe.written = << <<"b", ":", " ", "2", "3">>, <<"a", ":", " ", "1">> >>
    /\ pipe.client.rest = <<>> /\ pipe.client.lines = pipe.written
    /\ pipe.server.lines = << <<"b", ":", " ", "2", "3">> >>
    /\ pipe.server.buffer = <<"a", ":">>

\* ------------------------------------------------------------ worker handle

\* Worker.exitCode, an optional number: <<>> for null, <<code>> for a code.
NoCode == <<>>
Code(code) == <<code>>

\* if(this.exitCode): null and 0 are falsy.
Truthy(exitCode) == exitCode # NoCode /\ exitCode[1] # 0

\* parseInt(value) and Buffer.from(value, 'base64').toString().
ParseInt(value) == CASE value = <<"0">> -> 0 [] value = <<"1">> -> 1
FromBase64(value) ==
    CASE value = <<Base64("hi")>> -> "hi"
      [] value = <<Base64("ping")>> -> "ping"
      [] value = <<Base64(ErrorJson)>> -> ErrorJson

\* What the handle emitted to its caller, who listens to every event.
Event(name, code, data) == [name |-> name, code |-> code, data |-> data]

\* workedExitError.code, and the code of the disconnect error.
workedExitError == "ERR_WORKER_EXITED"
WorkerDisconnected == "ERRWORKERDISCONNECTED"

\* The last call of postMessage, terminate or stdin.write and how it ended.
Call(op, outcome) == [op |-> op, outcome |-> outcome]
NoCall == Call("none", "")

\* new Worker(node, hash, options), _connect having sent POST /worker.
\* unknown counts the records of a name this version does not know that
\* were sent on the event stream and on the control stream of the handle.
\* caller is how the caller attached its 'error' listener: with on, with
\* once, or "none"; heard the errors that listener was called with, thrown
\* the errors thrown out of _handleError.
\* listeners are the once-listeners of _connect still registered; futures
\* the promises terminate() returned; piped what _pipes[1] holds unsent.
NewHandle(n, hash, options) ==
    [node |-> n, hash |-> hash, options |-> options, id |-> NoId, exitCode |-> NoCode, isLaunched |-> FALSE,
     pc |-> "POST /worker", status |-> 0, socket |-> 0, socketOpen |-> FALSE,
     buffer |-> <<>>, events |-> <<>>,
     piped |-> <<>>, rs |-> 0, manuallyClosed |-> FALSE, listeners |-> {},
     futures |-> <<>>, call |-> NoCall, calls |-> 0,
     unknown |-> [event |-> 0, control |-> 0],
     caller |-> "on", heard |-> <<>>, thrown |-> <<>>]

\* A handle together with the NodeClient it was launched on.
Current(k) == [handle |-> handles[k], node |-> At(nodes, handles[k].node)]

Apply(k, st) ==
    /\ handles' = [handles EXCEPT ![k] = st.handle]
    /\ nodes' = [nodes EXCEPT ![st.handle.node + 1] = st.node]

\* _connect's exit(): line 544-555.
ExitCleanup(st) ==
    LET list == Splice(st.node.workers, FindIndex(st.node.workers, st.handle.id))
    IN  [handle |-> [st.handle EXCEPT !.manuallyClosed = TRUE],
         node |-> [st.node EXCEPT !.workers = list,
                                  !._interval = IF Len(list) = 0 THEN null ELSE @]]

\* Whether the caller's 'error' listener is registered: one attached with
\* once is removed when it is called.
CallerListens(h) == h.caller = "on" \/ (h.caller = "once" /\ h.heard = <<>>)

\* this.rawListeners('error').length
ErrorListeners(h) ==
    (IF CallerListens(h) THEN 1 ELSE 0) + (IF "error" \in h.listeners THEN 1 ELSE 0)

\* this.emit(name, ...): the caller's listener, and _connect's once-listener
\* of that event when it is still registered.
Emit(st, event) ==
    LET logged == [st EXCEPT !.handle.events = Append(@, event)]
        told == IF event.name = "error" /\ CallerListens(st.handle)
                THEN [logged EXCEPT !.handle.heard = Append(@, event.data)]
                ELSE logged
    IN  IF event.name \in st.handle.listeners
        THEN ExitCleanup([told EXCEPT !.handle.listeners = @ \ {event.name}])
        ELSE told

\* throw error
Throw(st, error) == [st EXCEPT !.handle.thrown = Append(@, error)]

\* Worker._handleError: emit('error') itself throws the error when no
\* listener of 'error' is registered.
HandleErrorOnly(st, error) == Emit(st, Event("error", 0, error))
_handleError(st, error) ==
    IF ErrorListeners(st.handle) < 1 THEN Throw(st, error)
    ELSE LET set == [Emit(st, Event("error", 0, error)) EXCEPT !.handle.exitCode = Code(1)]
         IN  IF ErrorListeners(set.handle) < 1 THEN Throw(set, error) ELSE set

\* onMessage, case 'exit'; the listeners terminate() registered resolve.
Exited(st, code) ==
    LET set == [st EXCEPT !.handle.isLaunched = FALSE, !.handle.exitCode = Code(code)]
        resolved == [i \in 1 .. Len(st.handle.futures) |->
                        IF st.handle.futures[i] = "pending" THEN "resolved"
                        ELSE st.handle.futures[i]]
    IN  [Emit(set, Event("exit", code, "")) EXCEPT !.handle.futures = resolved]

\* processReadPipes' onMessage
OnMessageByDefault(st, line) ==
    LET name == Name(line)
        value == Value(line)
    IN  CASE name = <<"online">> ->
                 IF value = <<"true">> THEN Emit(st, Event("online", 0, "")) ELSE st
          [] name = <<"error">> -> _handleError(st, FromBase64(value))
          [] name = <<"exit">> -> Exited(st, ParseInt(value))
          [] name = <<"message">> -> Emit(st, Event("message", 0, FromBase64(value)))
          [] OTHER -> Emit(st, Event("message", 0, FromBase64(value)))
OnMessage(st, line) ==
    LET name == Name(line)
        value == Value(line)
    IN  CASE name = <<"online">> ->
                 IF value = <<"true">> THEN Emit(st, Event("online", 0, "")) ELSE st
          [] name = <<"error">> -> _handleError(st, FromBase64(value))
          [] name = <<"exit">> -> Exited(st, ParseInt(value))
          [] name = <<"message">> -> Emit(st, Event("message", 0, FromBase64(value)))
          [] OTHER -> st

RECURSIVE OnMessages(_, _)
OnMessages(st, lines) ==
    IF lines = <<>> THEN st ELSE OnMessages(OnMessage(st, Head(lines)), Tail(lines))

\* this._pipes[0].on('data', ...)
OnData(st, chunk) ==
    LET p == Parsed(st.handle.buffer, chunk)
    IN  OnMessages([st EXCEPT !.handle.buffer = p.buffer], p.lines)

\* A control-stream request of handle k to worker w, its body starting with
\* what _pipes[1] held.
Control(w, k, text) ==
    [worker |-> w, handle |-> k, state |-> "requested", inbox |-> text, buffer |-> <<>>]

\* startWriteStream: the handle after it, the request being controls[c].
StartedKeepingPiped(h, c) == [h EXCEPT !.rs = c, !.isLaunched = TRUE]
Started(h, c) == [h EXCEPT !.rs = c, !.piped = <<>>, !.isLaunched = TRUE]

\* _connect, line 469: the node handles POST /worker, or cannot be reached.
Request(k) ==
    LET h == handles[k]
    IN  /\ h.pc = "POST /worker"
        /\ \/ /\ PostWorker(h.hash, h.options, TRUE, k)
              /\ handles' = [handles EXCEPT ![k] =
                    [h EXCEPT !.pc = "response", !.status = reply'.status,
                              !.socket = IF reply'.status = 200 THEN Len(sockets') ELSE 0]]
              /\ UNCHANGED nodes
           \/ /\ Apply(k, [_handleError(Current(k), "ECONNREFUSED") EXCEPT
                              !.handle.pc = "failed"])
              /\ UNCHANGED managerVars

\* _connect, line 475-559: the answer arrives; a 400 rejects the request.
Respond(k) ==
    LET h == handles[k]
        workerID == sockets[h.socket].worker
    IN  /\ h.pc = "response"
        /\ IF h.status # 200
           THEN /\ Apply(k, [_handleError(Current(k), "Request failed") EXCEPT
                                !.handle.pc = "failed"])
                /\ UNCHANGED controls
           ELSE /\ handles' = [handles EXCEPT ![k] =
                      [Started(h, Len(controls) + 1) EXCEPT
                          !.pc = "connected", !.socketOpen = TRUE, !.id = workerID,
                          !.listeners = {"exit", "error"}]]
                /\ controls' = Append(controls, Control(workerID, k, h.piped))
                /\ UNCHANGED nodes
        /\ UNCHANGED <<workers, threads, sockets, timers, reply>>

\* The next record of the event stream arrives as one chunk.
Receive(k) ==
    LET h == handles[k]
        out == sockets[h.socket].out
        n == CHOOSE i \in 1 .. Len(out) : out[i] = NL /\ \A j \in 1 .. i - 1 : out[j] # NL
    IN  /\ h.pc = "connected" /\ h.socketOpen
        /\ out # <<>>
        /\ sockets' = [sockets EXCEPT ![h.socket].out = SubSeq(out, n + 1, Len(out))]
        /\ Apply(k, OnData(Current(k), SubSeq(out, 1, n)))
        /\ UNCHANGED <<workers, threads, controls, timers, reply>>

\* request.socket.on('close', ...): the event-stream connection has closed.
Disconnect(k) ==
    LET h == handles[k]
        closed == [Current(k) EXCEPT !.handle.socketOpen = FALSE]
    IN  /\ h.pc = "connected" /\ h.socketOpen
        /\ Apply(k, IF Truthy(h.exitCode) THEN closed
                    ELSE _handleError(closed, WorkerDisconnected))
        /\ UNCHANGED managerVars

\* POST /worker/:id/streams-pipe, and rs.on('response') of the handle that
\* sent it: a 404 sets manuallyClosed.  The status answered is the state of
\* the control stream, "open" for 200 and "refused" for 404.
Accept(c) ==
    LET r == controls[c]
        found == Find(workers, r.worker)
    IN  /\ r.state = "requested"
        /\ controls' = [controls EXCEPT ![c].state = IF found THEN "open" ELSE "refused"]
        /\ handles' = IF found THEN handles
                      ELSE [handles EXCEPT ![r.handle].manuallyClosed = TRUE]
        /\ UNCHANGED <<workers, threads, sockets, timers, reply, nodes>>

\* pipeWorkerWriteStreams' onMessage on the worker thread.
ControlMessageStdinAlways(worker, line) ==
    LET name == Name(line)
        decoded == FromBase64(Value(line))
    IN  CASE name = <<"stdin">> ->
                 IF Running(worker)
                 THEN [worker EXCEPT !.input = Append(@, decoded)] ELSE worker
          [] name = <<"worker_message">> ->
                 IF Running(worker)
                 THEN [worker EXCEPT !.received = Append(@, decoded)] ELSE worker
          [] name = <<"terminate">> -> Terminate(worker)
          [] OTHER -> worker
ControlMessage(worker, line) ==
    LET name == Name(line)
        decoded == FromBase64(Value(line))
    IN  CASE name = <<"stdin">> ->
                 IF worker.stdin /\ Running(worker)
                 THEN [worker EXCEPT !.input = Append(@, decoded)] ELSE worker
          [] name = <<"worker_message">> ->
                 IF Running(worker)
                 THEN [worker EXCEPT !.received = Append(@, decoded)] ELSE worker
          [] name = <<"terminate">> -> Terminate(worker)
          [] OTHER -> worker

RECURSIVE ControlMessages(_, _)
ControlMessages(worker, lines) ==
    IF lines = <<>> THEN worker
    ELSE ControlMessages(ControlMessage(worker, Head(lines)), Tail(lines))

\* req.on('data', ...) of a control stream: its next record arrives.
ControlData(c) ==
    LET r == controls[c]
        n == CHOOSE i \in 1 .. Len(r.inbox) :
                r.inbox[i] = NL /\ \A j \in 1 .. i - 1 : r.inbox[j] # NL
        p == Parsed(r.buffer, SubSeq(r.inbox, 1, n))
    IN  /\ r.state \in {"open", "ended"}
        /\ r.inbox # <<>>
        /\ controls' = [controls EXCEPT
              ![c].inbox = SubSeq(r.inbox, n + 1, Len(r.inbox)), ![c].buffer = p.buffer]
        /\ threads' = [threads EXCEPT ![r.worker] = ControlMessages(@, p.lines)]
        /\ UNCHANGED <<workers, sockets, timers, reply, handles, nodes>>

\* rs.on('close', ...), line 535-540.
ReopensWhileNoExitCode(h) == ~Truthy(h.exitCode)
Reopens(h) == ~(h.manuallyClosed \/ Truthy(h.exitCode))

ControlClose(c) ==
    LET r == controls[c]
        h == handles[r.handle]
        closed == [controls EXCEPT ![c].state = "closed"]
    IN  /\ r.state # "closed"
        /\ IF Reopens(h)
           THEN /\ controls' = Append(closed, Control(h.id, r.handle, h.piped))
                /\ handles' = [handles EXCEPT ![r.handle] = Started(h, Len(controls) + 1)]
           ELSE /\ controls' = closed
                /\ UNCHANGED handles
        /\ UNCHANGED <<workers, threads, sockets, timers, reply, nodes>>

\* this._pipes[1].write(text): to the request _pipes[1] is piped into, or kept.
PipeWrite(k, h, text) ==
    IF h.rs # 0 /\ controls[h.rs].state # "closed"
    THEN /\ controls' = [controls EXCEPT ![h.rs].inbox = @ \o text]
         /\ handles' = [handles EXCEPT ![k] = h]
    ELSE /\ handles' = [handles EXCEPT ![k] = [h EXCEPT !.piped = @ \o text]]
         /\ UNCHANGED controls

Called(h, op, outcome) ==
    [h EXCEPT !.call = Call(op, outcome), !.calls = @ + 1]

\* Worker.postMessage(value)
PostMessage(k) ==
    LET h == handles[k]
    IN  /\ IF Truthy(h.exitCode)
           THEN /\ handles' = [handles EXCEPT ![k] = Called(h, "postMessage", workedExitError)]
                /\ UNCHANGED controls
           ELSE PipeWrite(k, Called(h, "postMessage", "ok"),
                          Line("worker_message", Base64("ping")))
        /\ UNCHANGED <<workers, threads, sockets, timers, reply, nodes>>

\* worker.stdin.write(chunk): the 'data' handler of the constructor.
StdinWrite(k) ==
    LET h == handles[k]
    IN  /\ IF Truthy(h.exitCode)
           THEN /\ handles' = [handles EXCEPT ![k] = Called(h, "stdin", workedExitError)]
                /\ UNCHANGED controls
           ELSE PipeWrite(k, Called(h, "stdin", "ok"), Line("stdin", Base64("ping")))
        /\ UNCHANGED <<workers, threads, sockets, timers, reply, nodes>>

\* Worker.terminate()
TerminateCall(k) ==
    LET h == handles[k]
    IN  /\ IF Truthy(h.exitCode)
           THEN /\ handles' = [handles EXCEPT ![k] =
                      [Called(h, "terminate", workedExitError) EXCEPT
                          !.futures = Append(@, "rejected")]]
                /\ UNCHANGED controls
           ELSE PipeWrite(k, [Called(h, "terminate", "ok") EXCEPT
                                 !.futures = Append(@, "pending")],
                          Line("terminate", "true"))
        /\ UNCHANGED <<workers, threads, sockets, timers, reply, nodes>>

\* ------------------------------------------------------ worker handle: spec

\* Calls of postMessage, terminate and stdin.write on a handle, and control
\* streams it opens.
MaxCalls == 1
MaxControls == 2

\* The bundle h1: what its program posts to the parent before it ends.
Script == <<"hi">>

unchangedByHandle == <<choicesBehavior, _lastIndex, spawns, sampled, serverVars, pipe, http, cpu>>

request == (\E k \in 1 .. Len(handles) : Request(k)) /\ UNCHANGED unchangedByHandle
respond == (\E k \in 1 .. Len(handles) : Respond(k)) /\ UNCHANGED unchangedByHandle
receive == (\E k \in 1 .. Len(handles) : Receive(k)) /\ UNCHANGED unchangedByHandle
disconnect == (\E k \in 1 .. Len(handles) : Disconnect(k)) /\ UNCHANGED unchangedByHandle
accept == (\E c \in 1 .. Len(controls) : Accept(c)) /\ UNCHANGED unchangedByHandle
data == (\E c \in 1 .. Len(controls) : ControlData(c)) /\ UNCHANGED unchangedByHandle

\* A control connection closes: once its response has ended, or cut off.
controlClose ==
    /\ \E c \in 1 .. Len(controls) :
          /\ controls[c].state \in {"requested", "open"} => Len(controls) < MaxControls
          /\ ControlClose(c)
    /\ UNCHANGED unchangedByHandle

postMessage ==
    /\ \E k \in 1 .. Len(handles) : handles[k].calls < MaxCalls /\ PostMessage(k)
    /\ UNCHANGED unchangedByHandle
stdinWrite ==
    /\ \E k \in 1 .. Len(handles) : handles[k].calls < MaxCalls /\ StdinWrite(k)
    /\ UNCHANGED unchangedByHandle
terminate ==
    /\ \E k \in 1 .. Len(handles) : handles[k].calls < MaxCalls /\ TerminateCall(k)
    /\ UNCHANGED unchangedByHandle

message ==
    /\ \E w \in 1 .. Len(threads) :
          /\ threads[w].posted < Len(Script)
          /\ Message(w, Script[threads[w].posted + 1])
    /\ UNCHANGED <<clientVars, serverVars, handleVars, http, cpu>>

\* A NodeClient whose launchWorker has constructed its first Worker and set
\* the refresh timer.
Launched1 == [Informed(NewNodeClient, <<2>>) EXCEPT !._interval = "Timeout"]

\* One worker launched on a node that holds the bundle h1.
InitHandle ==
    /\ choicesBehavior = "random"
    /\ nodes = <<Launched1>>
    /\ _lastIndex = -1
    /\ spawns = <<>>
    /\ sampled = FALSE
    /\ \E hash \in Hashes : handles = <<NewHandle(0, hash, DefaultOptions)>>
    /\ pipe = NoPipe
    /\ BundlesManagerOver({[name |-> "h1", data |-> <<1>>]})
    /\ res = NoResponse
    /\ upload = [h \in Hashes |-> NotUploaded]
    /\ WorkersManagerNew
    /\ http = NoRequest
    /\ cpu = ModuleLoaded(Idle)

NextHandle ==
    \/ request \/ respond \/ receive \/ disconnect
    \/ accept \/ data \/ controlClose
    \/ postMessage \/ stdinWrite \/ terminate
    \/ close \/ timeout \/ online \/ message \/ fault \/ exit

SpecHandle == InitHandle /\ [][NextHandle]_vars

\* ---------------------------------------------------- worker handle: claims

Terminal(event) == event.name \in {"exit", "error"}
ObservedTerminal(h) == \E i \in 1 .. Len(h.events) : Terminal(h.events[i])

\* C14: a handle emits at most one terminal event (exit or error) and no
\* event after it: a terminal event is the last event the handle emitted,
\* so a child that goes online, posts "hi" and exits with code 0 is observed
\* as online, message("hi"), exit(0) and nothing more, also once the
\* event-stream connection has closed.
C14_TerminalEventLast ==
    \A k \in 1 .. Len(handles) :
        \A i \in 1 .. Len(handles[k].events) :
            Terminal(handles[k].events[i]) => i = Len(handles[k].events)

\* A step in which postMessage, terminate or stdin.write was called on
\* handle k.
Calling(k) ==
    /\ k \in 1 .. Len(handles)
    /\ handles'[k].calls = handles[k].calls + 1

\* Nothing was written to the control stream of handle k in this step.
NothingWritten(k) ==
    /\ handles'[k].piped = handles[k].piped
    /\ controls' = controls

C15_Step ==
    \A k \in 1 .. Len(handles) :
        Calling(k) /\ ObservedTerminal(handles[k]) =>
            /\ handles'[k].call.outcome = workedExitError
            /\ NothingWritten(k)

\* C15: once a handle has observed exit, whatever the exit code, or a
\* terminal error, a call of postMessage, terminate or stdin.write fails with
\* ERR_WORKER_EXITED and writes no record to the control stream.
C15_FailsAfterExit == [][C15_Step]_vars

\* The child of handle h has ended, the node has ended the event stream of h
\* with the record of that, and the handle has received all of the stream.
ChildEnded(h) ==
    /\ h.pc = "connected"
    /\ threads[h.id].status = "exited"
    /\ sockets[h.socket].state = "ended"
    /\ sockets[h.socket].out = <<>>

\* C16: a future of terminate(), called on a handle that has not exited, does
\* not stay pending once the child has reached its terminal state and every
\* record of the event stream has been delivered to the handle.
C16_TerminateCompletes ==
    \A k \in 1 .. Len(handles) :
        LET h == handles[k]
        IN  ChildEnded(h) /\ (\A i \in 1 .. Len(h.events) : h.events[i].name # "exit") =>
                \A i \in 1 .. Len(h.futures) : h.futures[i] # "pending"

\* A step in which the control connection c closes.
ControlClosing(c) ==
    /\ c \in 1 .. Len(controls)
    /\ controls[c].state # "closed"
    /\ controls'[c].state = "closed"

\* The client opens a control connection to worker id in this step.
Reopening(id) ==
    /\ Len(controls') = Len(controls) + 1
    /\ controls'[Len(controls')].worker = id
    /\ controls'[Len(controls')].state = "requested"

C17_Step ==
    \A c \in 1 .. Len(controls) :
        LET h == handles[controls[c].handle]
        IN  /\ ControlClosing(c) /\ ~ObservedTerminal(h) /\ controls[c].state # "refused"
                => Reopening(h.id)
            /\ ObservedTerminal(h) => Len(controls') = Len(controls)

\* C17: when the control connection of a handle closes while the handle has
\* observed no terminal event and the node has not answered 404, the client
\* opens a new control connection to the same worker identifier; once the
\* handle has observed exit or error no control connection is opened.
C17_ControlReopened == [][C17_Step]_vars

\* A control connection was cut and reopened while the worker ran, and one
\* closed after the handle observed exit(0) with none opened in its place.
C17_Witness ==
    /\ Len(controls) = 2
    /\ controls[1].state = "closed" /\ controls[2].state = "closed"
    /\ ~Find(workers, 1)
    /\ handles[1].exitCode = Code(0)
    /\ handles[1].rs = 2

\* A step in which the event-stream connection of handle k closes.
Disconnecting(k) ==
    /\ k \in 1 .. Len(handles)
    /\ handles[k].socketOpen
    /\ ~handles'[k].socketOpen

IsDisconnected(h) ==
    /\ h.events # <<>>
    /\ h.events[Len(h.events)] = Event("error", 0, WorkerDisconnected)

C18_Step ==
    \A k \in 1 .. Len(handles) :
        /\ Disconnecting(k) /\ ~ObservedTerminal(handles[k]) =>
              /\ handles'[k].events =
                    Append(handles[k].events, Event("error", 0, WorkerDisconnected))
              /\ Len(sockets') = Len(sockets)
              /\ handles'[k].pc = "connected"
        /\ IsDisconnected(handles'[k]) =>
              /\ Truthy(handles'[k].exitCode)
              /\ Len(sockets') = Len(sockets)
              /\ ~handles'[k].socketOpen

\* C18: when the event-stream connection of a handle made through POST /worker
\* closes before any exit or error was received, the handle emits an error
\* with code ERRWORKERDISCONNECTED, from then on has a truthy exitCode (its
\* calls fail as after exit), and no event stream is opened for it again.
C18_DisconnectIsError == [][C18_Step]_vars

\* The event stream dropped while the child ran, and a later postMessage
\* failed as after exit.
C18_Witness ==
    /\ Len(handles) = 1
    /\ IsDisconnected(handles[1])
    /\ threads[1].status = "online"
    /\ handles[1].call = Call("postMessage", workedExitError)

\* ------------------------------------------------------ refresh timer: spec

\* Workers launched on the node.
MaxLaunches == 2

\* NodeClient.launchWorker after bundle() returned hash: the Worker is
\* constructed, its POST /worker sent, and the refresh timer set if there is
\* none.
LaunchWorker(n, hash) ==
    /\ handles' = Append(handles, NewHandle(n, hash, DefaultOptions))
    /\ nodes' = [nodes EXCEPT ![n + 1]._interval = IF @ = null THEN "Timeout" ELSE @]

launchWorker ==
    /\ Len(handles) < MaxLaunches
    /\ \E n \in 0 .. Len(nodes) - 1 : LaunchWorker(n, "h1")
    /\ UNCHANGED <<choicesBehavior, _lastIndex, spawns, sampled, serverVars, managerVars, pipe, http, cpu>>

\* One informed node that holds the bundle h1, nothing launched on it.
InitTimer ==
    /\ choicesBehavior = "random"
    /\ nodes = <<Informed(NewNodeClient, <<2>>)>>
    /\ _lastIndex = -1
    /\ spawns = <<>>
    /\ sampled = FALSE
    /\ handles = <<>>
    /\ pipe = NoPipe
    /\ BundlesManagerOver({[name |-> "h1", data |-> <<1>>]})
    /\ res = NoResponse
    /\ upload = [h \in Hashes |-> NotUploaded]
    /\ WorkersManagerNew
    /\ http = NoRequest
    /\ cpu = ModuleLoaded(Idle)

NextTimer ==
    \/ launchWorker
    \/ request \/ respond \/ receive \/ disconnect
    \/ online \/ fault \/ exit

SpecTimer == InitTimer /\ [][NextTimer]_vars

\* NodeClient.launchWorker, line 76-79, of spawnWorker call k: bundle() has
\* returned the hash.
newWorker(k) ==
    LET s == spawns[k]
    IN  /\ s.pc = "bundled"
        /\ LaunchWorker(s.node, s.hash)
        /\ Step(k, [s EXCEPT !.pc = "launched"])
        /\ UNCHANGED <<sampled, serverVars, managerVars, pipe, http, cpu>>

\* ---------------------------------------------------- bundle upload: spec

\* A client with one registered node (every policy then chooses that node),
\* and that node freshly started.
InitUpload ==
    /\ choicesBehavior = "balancing"
    /\ nodes = <<NewNodeClient>>
    /\ _lastIndex = -1
    /\ spawns = <<>>
    /\ sampled = FALSE
    /\ handles = <<>>
    /\ pipe = NoPipe
    /\ BundlesManagerOver({})
    /\ res = NoResponse
    /\ upload = [h \in Hashes |-> NotUploaded]
    /\ WorkersManagerNew
    /\ http = NoRequest
    /\ cpu = ModuleLoaded(Idle)

launch == Spawn(MaxUploads)
probe == \E k \in 1 .. Len(spawns) : testConnection(k)
inform == \E k \in 1 .. Len(spawns) : awaitFetchInformation(k)
bundle == \E k \in 1 .. Len(spawns) : build(k)
lookup == \E k \in 1 .. Len(spawns) : getBundle(k)
reserve == \E k \in 1 .. Len(spawns) : postCreate(k)
send == \E k \in 1 .. Len(spawns) : postData(k)
cleanup == \E k \in 1 .. Len(spawns) : rmSync(k)
construct == \E k \in 1 .. Len(spawns) : newWorker(k)

NextUpload ==
    \/ launch \/ fetchInformation
    \/ probe \/ inform \/ bundle \/ lookup \/ reserve \/ send \/ cleanup \/ construct

SpecUpload == InitUpload /\ [][NextUpload]_vars

\* ---------------------------------------------------- refresh timer: claims

\* C19: the refresh timer of a NodeClient is running whenever a worker handle
\* launched on that node has not yet exited (has observed no exit or error).
C19_TimerWhileLive ==
    \A k \in 1 .. Len(handles) :
        ~ObservedTerminal(handles[k]) => At(nodes, handles[k].node)._interval # null

\* ------------------------------------------------------------------ server

\* The auth option the Server was constructed with.
ServerAuth == [username |-> <<"asdf">>, password |-> <<"asdf">>]

\* The texts a client put in the credentials of an Authorization header:
\* user-id, colon, password.
Credentials ==
    { <<"asdf", ":", "asdf">>, <<"asdf", ":", "wrong">>, <<"root", ":", "asdf">>,
      <<"asdf", ":", "asdf", ":", "x">>, <<"asdf">> }

\* Buffer.from(text).toString('base64') of a client, and
\* Buffer.from(authorization, 'base64').toString() of the middleware.
CredentialsBase64(text) ==
    CASE text = <<"asdf", ":", "asdf">> -> "YXNkZjphc2Rm"
      [] text = <<"asdf", ":", "wrong">> -> "YXNkZjp3cm9uZw=="
      [] text = <<"root", ":", "asdf">> -> "cm9vdDphc2Rm"
      [] text = <<"asdf", ":", "asdf", ":", "x">> -> "YXNkZjphc2RmOng="
      [] text = <<"asdf">> -> "YXNkZg=="
CredentialsFromBase64(authorization) ==
    IF \E text \in Credentials : authorization = <<CredentialsBase64(text)>>
    THEN CHOOSE text \in Credentials : authorization = <<CredentialsBase64(text)>>
    ELSE <<>>

\* request.headers.authorization of the requests a node receives; <<>> when
\* the header is missing.
Authorizations ==
    { <<>>, <<"Basic">> }
    \cup { <<scheme, " ", CredentialsBase64(<<"asdf", ":", "asdf">>)>> :
              scheme \in {"Basic", "basic", "Bearer"} }
    \cup { <<"Basic", " ", CredentialsBase64(text)>> : text \in Credentials }

\* seq[i] of a JavaScript array: <<>> for undefined, <<x>> for an element.
Element(seq, i) == IF i + 1 <= Len(seq) THEN <<seq[i + 1]>> ELSE <<>>

\* String.prototype.toLowerCase
ToLowerCase(text) ==
    [i \in 1 .. Len(text) |-> IF text[i] \in {"Basic", "BASIC"} THEN "basic" ELSE text[i]]

\* Server._authMiddleware: the condition under which it calls next().
Authorized(rawAuthorization) ==
    LET type == Element(SplitBy(rawAuthorization, " "), 0)
        authorization == Element(SplitBy(rawAuthorization, " "), 1)
        decodedAuth == CredentialsFromBase64(authorization[1])
    IN  /\ type # <<>> /\ type # << <<>> >> /\ ToLowerCase(type[1]) = <<"basic">>
        /\ authorization # <<>> /\ authorization # << <<>> >>
        /\ <<ServerAuth.username>> = Element(SplitBy(decodedAuth, ":"), 0)
        /\ <<ServerAuth.password>> = Element(SplitBy(decodedAuth, ":"), 1)

Realm == "Basic realm=\"worker_threads_nodes\""

\* The endpoints of Server and of its managers that a request is sent to.
Endpoints == {"GET /health", "GET /workers", "POST /worker", "POST /bundles/create"}

\* The endpoint handler next() runs.
Route(op, rawAuthorization, hash, exitOnRequestEnd) ==
    CASE op = "GET /health" ->
            /\ http' = Answer(op, rawAuthorization, 200, "", <<Len(workers)>>)
            /\ cpu' = getCPUUsage(cpu)
            /\ UNCHANGED <<serverVars, managerVars>>
      [] op = "GET /workers" ->
            /\ http' = Answer(op, rawAuthorization, 200, "", workers)
            /\ UNCHANGED <<serverVars, managerVars, cpu>>
      [] op = "POST /worker" ->
            /\ PostWorker(hash, DefaultOptions, exitOnRequestEnd, NoHandle)
            /\ http' = Answer(op, rawAuthorization, reply'.status, "", <<>>)
            /\ UNCHANGED <<serverVars, cpu>>
      [] op = "POST /bundles/create" ->
            /\ PostBundlesCreate(hash)
            /\ http' = Answer(op, rawAuthorization, res'.status, "", <<>>)
            /\ UNCHANGED <<managerVars, cpu>>

\* A request to the node: the middleware chain of the Express app.
Serve(op, rawAuthorization, hash, exitOnRequestEnd) ==
    IF Authorized(rawAuthorization)
    THEN Route(op, rawAuthorization, hash, exitOnRequestEnd)
    ELSE /\ http' = Answer(op, rawAuthorization, 401, Realm, <<>>)
         /\ UNCHANGED <<serverVars, managerVars, cpu>>

\* ------------------------------------------------------------ server: spec

\* The bundleHash and hash of the bodies sent to an endpoint that reads one.
Sendable(op) ==
    IF op \in {"POST /worker", "POST /bundles/create"} THEN Hashes ELSE {""}

serve ==
    /\ \E op \in Endpoints, rawAuthorization \in Authorizations :
       \E hash \in Sendable(op) :
          /\ Authorized(rawAuthorization) /\ op = "POST /worker" =>
                Len(threads) < MaxWorkers /\ Len(sockets) < MaxSockets
          /\ Authorized(rawAuthorization) /\ op = "POST /bundles/create" =>
                Len(cachedBundledHashes) < MaxCached
          /\ Serve(op, rawAuthorization, hash, FALSE)
    /\ UNCHANGED <<clientVars, handleVars>>

\* Server.start() has resolved on a node whose scratch directory holds the
\* bundle h1.
InitServer ==
    /\ InitClientIdle
    /\ BundlesManagerOver({[name |-> "h1", data |-> <<1>>]})
    /\ res = NoResponse
    /\ upload = [h \in Hashes |-> NotUploaded]
    /\ WorkersManagerNew
    /\ http = NoRequest
    /\ cpu = ModuleLoaded(Idle)

NextServer == serve \/ fault \/ exit

SpecServer == InitServer /\ [][NextServer]_vars

\* ---------------------------------------------------------- server: claims

\* RFC 7617: the scheme is Basic in any case, and the credentials are the
\* user-id, a colon and the password, which is all that follows the colon.
ValidCredentials(rawAuthorization) ==
    \E scheme \in {"Basic", "basic"} :
        rawAuthorization =
            <<scheme, " ",
              CredentialsBase64(ServerAuth.username \o <<":">> \o ServerAuth.password)>>

\* C21: a request without valid Basic credentials (missing header, wrong
\* scheme, wrong username or wrong password) is answered 401 with
\* WWW-Authenticate: Basic realm="worker_threads_nodes", and no endpoint
\* handler runs: no bundle slot, worker or stream state changes.
C21_Unauthorized ==
    (http.op # "none" /\ ~ValidCredentials(http.authorization)) =>
        /\ http.status = 401
        /\ http.wwwAuthenticate = Realm

\* The identifiers of the workers created that have neither exited nor
\* faulted, in the order of their creation.
RECURSIVE LiveFrom(_)
LiveFrom(w) ==
    IF w > Len(threads) THEN <<>>
    ELSE (IF threads[w].status \in {"pending", "online"} THEN <<w>> ELSE <<>>)
         \o LiveFrom(w + 1)

\* A step in which the node answers 200 to a request to op.
Answering(op) == http' # http /\ http'.op = op /\ http'.status = 200

C22_Step ==
    /\ Answering("GET /workers") => http'.json = LiveFrom(1)
    /\ Answering("GET /health") => http'.json = <<Len(LiveFrom(1))>>

\* C22: after any creations, exits and faults, GET /workers answers exactly
\* the identifiers of the workers created that have not exited or faulted,
\* and workersRunning of GET /health is their number.
C22_WorkersListed == [][C22_Step]_vars

\* ------------------------------------------- worker handle: further claims

\* The worker-create request of handle h was answered 400, or failed.
CreateFailed(h) == h.pc = "failed"

C23_Step ==
    \A k \in 1 .. Len(handles) :
        /\ CreateFailed(handles'[k]) =>
              /\ handles'[k].events # <<>>
              /\ handles'[k].events[Len(handles'[k].events)].name = "error"
              /\ Truthy(handles'[k].exitCode)
              /\ handles'[k].rs = 0
              /\ \A c \in 1 .. Len(controls') : controls'[c].handle # k
        /\ Calling(k) /\ CreateFailed(handles[k]) =>
              /\ handles'[k].call.outcome = workedExitError
              /\ NothingWritten(k)

CouldNotConnect == "Could not connect to node. Please verify that the server is running."

\* The spawnWorker calls for which a Worker was constructed.
Constructed == {k \in 1 .. Len(spawns) : spawns[k].pc = "launched"}

C24_Step ==
    /\ \A k \in 1 .. Len(spawns) :
          /\ spawns[k].pc = "launchWorker" /\ spawns'[k].error # null =>
                /\ spawns'[k].pc = "rejected"
                /\ spawns'[k].error = CouldNotConnect
                /\ spawns'[k].sent = <<"GET /">>
                /\ spawns'[k].outFile = <<>>
                /\ UNCHANGED <<nodes, handles, serverVars, managerVars>>
          /\ spawns[k].error # null => spawns'[k] = spawns[k]
    /\ Len(handles') = Cardinality({k \in 1 .. Len(spawns') : spawns'[k].pc = "launched"})

\* C24: when the chosen node does not answer the probe, spawn fails with the
\* 'Could not connect to node' error, and for that spawn no bundle is built,
\* no request other than the probe is sent, no Worker is constructed and no
\* refresh timer is set.
C24_ProbeFails == [][C24_Step]_vars

\* One spawn failed at the probe, with nothing done on the node since, and
\* another one constructed its Worker.
C24_Witness ==
    /\ Len(spawns) = 2
    /\ spawns[2].error = CouldNotConnect
    /\ spawns[1].pc = "launched"
    /\ Len(handles) = 1

\* ------------------------------------------------- workers: further claims

\* The event streams of worker w whose close handler has not run: attached
\* and not closed.
OpenStreams(w) == {i \in 1 .. Len(sockets) : sockets[i].worker = w /\ sockets[i].state # "closed"}

\* C25: numOfConnectedSockets of every worker is non-negative and is the
\* number of event streams (of POST /worker and of GET streams-pipe) open for
\* that worker.
C25_CountIsOpenStreams ==
    \A w \in 1 .. Len(threads) :
        /\ threads[w].numOfConnectedSockets >= 0
        /\ threads[w].numOfConnectedSockets = Cardinality(OpenStreams(w))

\* A worker that exited with two streams attached, one of them closed since.
C25_Witness ==
    /\ Len(threads) = 1 /\ Len(sockets) = 2
    /\ threads[1].status = "exited"
    /\ sockets[1].state = "closed" /\ sockets[2].state = "ended"
    /\ threads[1].numOfConnectedSockets = 1

\* ----------------------------------------------------- event streams: spec

\* A reader the model does not follow further than to keep, in out, every
\* record the node wrote to its stream.
Tap == -1

\* One worker is created, and event streams attach to it.
attachCreating ==
    /\ threads = <<>>
    /\ \E exitOnRequestEnd \in BOOLEAN : PostWorker("h1", DefaultOptions, exitOnRequestEnd, Tap)
    /\ UNCHANGED <<clientVars, serverVars, handleVars, http, cpu>>

attach ==
    /\ Len(sockets) < MaxSockets
    /\ \E id \in 1 .. Len(threads), query \in Queries : GetStreamsPipe(id, query, Tap)
    /\ UNCHANGED <<clientVars, serverVars, handleVars, http, cpu>>

NextStreams ==
    \/ attachCreating \/ attach \/ close \/ timeout
    \/ online \/ message \/ fault \/ exit

SpecStreams == InitWorkers /\ [][NextStreams]_vars

\* --------------------------------------------------- event streams: claims

\* What this step wrote to event stream i, which existed before it.
Added(i) == SubSeq(sockets'[i].out, Len(sockets[i].out) + 1, Len(sockets'[i].out))

GoesOnline(w) == ~threads[w].isOnline /\ threads'[w].isOnline

C26_Step ==
    /\ \A i \in 1 .. Len(sockets') :
          LET w == sockets'[i].worker
          IN  IF i > Len(sockets)
              THEN sockets'[i].out = Line("online", BooleanString(threads'[w].isOnline))
              ELSE /\ SubSeq(sockets'[i].out, 1, Len(sockets[i].out)) = sockets[i].out
                   /\ IF GoesOnline(w) /\ sockets[i].state = "open"
                      THEN Added(i) = Line("online", "true")
                      ELSE \A j \in 1 .. Len(Added(i)) : Added(i)[j] # "online"
    /\ \A w \in 1 .. Len(threads) : threads[w].isOnline => threads'[w].isOnline

\* C26: the first record of every event stream is `online: <flag>` with the
\* worker's isOnline at attach time; a stream open when the child goes online
\* is written `online: true` at that moment and no other online record is
\* ever written to a stream; isOnline never goes back to false.
C26_OnlineRecords == [][C26_Step]_vars

\* One stream attached while the worker was pending, one after it was online.
C26_Witness ==
    /\ Len(sockets) = 2
    /\ sockets[1].out = Line("online", "false") \o Line("online", "true")
    /\ sockets[2].out = Line("online", "true")

\* The child of worker w ends in this step: it exits, or throws.
Ending(w) ==
    /\ threads[w].status \in {"pending", "online"}
    /\ threads'[w].status \in {"exited", "faulted"}

TerminalRecord(w) ==
    IF threads'[w].status = "faulted" THEN {Line("error", Base64(ErrorJson))}
    ELSE {Line("exit", Decimal(code)) : code \in ExitCodes}

C27_Step ==
    \A i \in 1 .. Len(sockets) :
        LET w == sockets[i].worker
        IN  /\ SubSeq(sockets'[i].out, 1, Len(sockets[i].out)) = sockets[i].out
            /\ sockets[i].state = "open" /\ Ending(w) =>
                  /\ Added(i) \in TerminalRecord(w)
                  /\ sockets'[i].state = "ended"
            /\ sockets[i].state = "open" /\ ~Ending(w) =>
                  \A j \in 1 .. Len(Added(i)) : Added(i)[j] \notin {"exit", "error"}
            /\ sockets[i].state # "open" => Added(i) = <<>>

\* C27: when a child exits or throws, every event stream open at that moment
\* is written one terminal record (exit with the code, or error with the
\* payload) and ended; nothing is written to a stream after that, also when
\* the exit event of a child that threw follows its error event.
C27_TerminalRecordLast == [][C27_Step]_vars

\* The child threw and then exited: the stream holds the error record and
\* nothing after it.
C27_Witness ==
    /\ Len(sockets) = 1
    /\ threads[1].status = "exited"
    /\ sockets[1].state = "ended"
    /\ sockets[1].out = Line("online", "false") \o Line("error", Base64(ErrorJson))

\* The child of worker w does something its streams are told of.
ChildEvent(w) ==
    \/ GoesOnline(w)
    \/ Ending(w)
    \/ threads'[w].posted > threads[w].posted

C28_Step ==
    /\ \A i \in 1 .. Len(sockets) :
          LET w == sockets[i].worker
          IN  /\ (/\ sockets[i].state # "closed" /\ sockets'[i].state = "closed"
                  /\ \E j \in OpenStreams(w) : j # i) =>
                    /\ threads'[w].terminated = threads[w].terminated
                    /\ threads'[w].status = threads[w].status
                    /\ timers' = timers
                    /\ \A j \in 1 .. Len(sockets) : j # i => sockets'[j] = sockets[j]
              /\ sockets[i].state = "open" /\ ChildEvent(w) => Added(i) # <<>>
    /\ \A w \in 1 .. Len(threads) :
          ~threads[w].terminated /\ threads'[w].terminated =>
              /\ timers # <<>> /\ Head(timers).worker = w
              /\ threads[w].numOfConnectedSockets = 0
    /\ Len(timers') > Len(timers) =>
          /\ threads'[timers'[Len(timers')].worker].numOfConnectedSockets = 0
          /\ sockets[timers'[Len(timers')].socket].exitOnRequestEnd

\* C28: closing one event stream of a worker while another is attached
\* neither terminates the child nor sets a grace timer, and changes no other
\* stream: every stream still open is written the later events of the child.
\* A child is terminated only by a grace timer, set by a closure that left
\* the count at zero, that finds the count at zero when it elapses.
C28_OtherStreamsKept == [][C28_Step]_vars

\* The creating stream, opened with exitOnRequestEnd, closed while a second
\* stream was attached: the child runs, and its message reached the second.
C28_Witness ==
    /\ Len(sockets) = 2
    /\ sockets[1].exitOnRequestEnd
    /\ sockets[1].state = "closed" /\ sockets[1].out = Line("online", "false")
    /\ sockets[2].state = "open"
    /\ sockets[2].out = Line("online", "false") \o Line("online", "true")
                        \o Line("message", Base64("hi"))
    /\ timers = <<>>
    /\ ~threads[1].terminated

\* ----------------------------------------------------- stream records: spec

\* Records of a name neither onMessage has a case for, sent on one stream: a
\* peer of a later version sends them.
MaxUnknown == 1
UnknownRecord == Line("progress", Base64("hi"))

\* The first record of a text, without its "\n".
FirstLine(text) ==
    LET n == CHOOSE i \in 1 .. Len(text) : text[i] = NL /\ \A j \in 1 .. i - 1 : text[j] # NL
    IN  SubSeq(text, 1, n - 1)

\* The node writes a record of an unknown name to the event stream of handle k.
UnknownEvent(k) ==
    LET h == handles[k]
    IN  /\ h.pc = "connected" /\ sockets[h.socket].state = "open"
        /\ h.unknown.event < MaxUnknown
        /\ sockets' = [sockets EXCEPT ![h.socket].out = @ \o UnknownRecord]
        /\ handles' = [handles EXCEPT ![k].unknown.event = @ + 1]
        /\ UNCHANGED <<workers, threads, controls, timers, reply, nodes>>

\* The control-stream request of handle k carries a record of an unknown name.
UnknownControl(k) ==
    LET h == handles[k]
    IN  /\ h.rs # 0 /\ controls[h.rs].state = "open"
        /\ h.unknown.control < MaxUnknown
        /\ controls' = [controls EXCEPT ![h.rs].inbox = @ \o UnknownRecord]
        /\ handles' = [handles EXCEPT ![k].unknown.control = @ + 1]
        /\ UNCHANGED <<workers, threads, sockets, timers, reply, nodes>>

unknownEvent == (\E k \in 1 .. Len(handles) : UnknownEvent(k)) /\ UNCHANGED unchangedByHandle
unknownControl == (\E k \in 1 .. Len(handles) : UnknownControl(k)) /\ UNCHANGED unchangedByHandle

\* One worker launched, with or without the option stdin, on a node that
\* holds the bundle h1.
InitRecords ==
    /\ choicesBehavior = "random"
    /\ nodes = <<Launched1>>
    /\ _lastIndex = -1
    /\ spawns = <<>>
    /\ sampled = FALSE
    /\ \E options \in WorkerOptions : handles = <<NewHandle(0, "h1", options)>>
    /\ pipe = NoPipe
    /\ BundlesManagerOver({[name |-> "h1", data |-> <<1>>]})
    /\ res = NoResponse
    /\ upload = [h \in Hashes |-> NotUploaded]
    /\ WorkersManagerNew
    /\ http = NoRequest
    /\ cpu = ModuleLoaded(Idle)

NextRecords ==
    \/ request \/ respond \/ receive \/ accept \/ data
    \/ postMessage \/ stdinWrite \/ terminate
    \/ online \/ message \/ exit
    \/ unknownEvent \/ unknownControl

SpecRecords == InitRecords /\ [][NextRecords]_vars

\* --------------------------------------------------- stream records: claims

EventNames == {<<"online">>, <<"error">>, <<"exit">>, <<"stdout">>, <<"stderr">>, <<"message">>}
ControlNames == {<<"stdin">>, <<"worker_message">>, <<"terminate">>}

\* Handle k is handed the next record of its event stream.
Receives(k) ==
    /\ handles[k].socket # 0
    /\ Len(sockets'[handles[k].socket].out) < Len(sockets[handles[k].socket].out)

\* The node is handed the next record of control stream c.
Reads(c) == c <= Len(controls) /\ Len(controls'[c].inbox) < Len(controls[c].inbox)

C29_Step ==
    /\ \A k \in 1 .. Len(handles) :
          Receives(k) =>
              LET line == FirstLine(sockets[handles[k].socket].out)
                  emitted == Len(handles'[k].events) - Len(handles[k].events)
              IN  /\ Name(line) \notin EventNames =>
                        handles' = handles /\ nodes' = nodes
                  /\ Name(line) \in {<<"message">>, <<"exit">>, <<"error">>} => emitted = 1
                  /\ line = <<"online", ":", " ", "true">> => emitted = 1
    /\ \A c \in 1 .. Len(controls) :
          Reads(c) =>
              LET line == FirstLine(controls[c].inbox)
                  w == controls[c].worker
              IN  /\ Name(line) \notin ControlNames =>
                        UNCHANGED <<workers, threads, sockets, timers>>
                  /\ Name(line) = <<"worker_message">> /\ Running(threads[w]) =>
                        threads'[w].received =
                            Append(threads[w].received, FromBase64(Value(line)))
                  /\ Name(line) = <<"terminate">> /\ Running(threads[w]) =>
                        threads'[w].terminated

\* C29: a record of a name onMessage has no case for changes nothing where it
\* is read: the handle that reads it from its event stream emits no event and
\* keeps its state, and the node that reads it from a control stream writes
\* nothing to the child's stdin, posts nothing to it and does not terminate
\* it.  The records read in the same run are dispatched as ever: message,
\* exit, error and online: true each emit their event, worker_message is
\* posted to a running child and terminate terminates it.
C29_UnknownIgnored == [][C29_Step]_vars

\* Both streams of a handle carried an unknown record, both were read, and
\* the records sent with them were dispatched: the handle emitted online and
\* message and nothing else, the child was posted the caller's message.
C29_Witness ==
    LET h == handles[1]
    IN  /\ h.unknown = [event |-> 1, control |-> 1]
        /\ sockets[h.socket].out = <<>>
        /\ h.rs # 0 /\ controls[h.rs].inbox = <<>>
        /\ h.events = <<Event("online", 0, ""), Event("message", 0, "hi")>>
        /\ h.exitCode = NoCode
        /\ threads[h.id].received = <<"ping">>
        /\ threads[h.id].input = <<>>
        /\ ~threads[h.id].terminated

\* The caller's write to stdin of a handle made without the option stdin.
StdinRecord == Line("stdin", Base64("ping"))

C30_Step ==
    /\ \A k \in 1 .. Len(handles) :
          LET h == handles[k]
          IN  (/\ ~h.options.stdin
               /\ handles'[k].calls = h.calls + 1
               /\ handles'[k].call = Call("stdin", "ok")) =>
                  \/ handles'[k].piped = h.piped \o StdinRecord /\ controls' = controls
                  \/ /\ h.rs # 0 /\ handles'[k].piped = h.piped
                     /\ controls'[h.rs].inbox = controls[h.rs].inbox \o StdinRecord
    /\ \A c \in 1 .. Len(controls) :
          (/\ Reads(c)
           /\ Name(FirstLine(controls[c].inbox)) = <<"stdin">>
           /\ ~threads[controls[c].worker].stdin) =>
              UNCHANGED <<workers, threads, sockets, timers>>
    /\ \A w \in 1 .. Len(threads) : ~threads'[w].stdin => threads'[w].input = <<>>

\* C30: stdin.write on a handle made without the option stdin still puts a
\* stdin record on the control stream (or in the pipe that feeds it), and
\* the node that reads the record changes nothing: the worker made without
\* stdin is never written any input, and its thread, the list of workers, the
\* event streams and the grace timers stay as they were.
C30_StdinDropped == [][C30_Step]_vars

\* The stdin record of such a handle has been sent and read by the node:
\* the child runs and has been given no input.
C30_Witness ==
    LET h == handles[1]
    IN  /\ ~h.options.stdin
        /\ h.call = Call("stdin", "ok")
        /\ h.piped = <<>>
        /\ h.rs # 0 /\ controls[h.rs].state = "open" /\ controls[h.rs].inbox = <<>>
        /\ h.unknown.control = 0
        /\ threads[h.id].status = "online"
        /\ threads[h.id].input = <<>>

\* ------------------------------------------------------ node startup: spec

\* The artifacts a node finds in its directory when it starts: the first n
\* of these names, each with one byte.
MaxStored == 10
Stored == <<"s1", "s2", "s3", "s4", "s5", "s6", "s7", "s8", "s9", "s10", "s11", "s12">>
Artifacts(n) == {[name |-> Stored[i], data |-> <<1>>] : i \in 1 .. n}
Fingerprints == Hashes \cup Range(Stored)

\* The node process ends and is started again over the same directory: its
\* workers are gone, and no request has been answered.
Restart ==
    /\ cachedBundledHashes' = Startup(tmpDir).cachedBundledHashes
    /\ tmpDir' = Startup(tmpDir).tmpDir
    /\ res' = Response("none", "", NotBuffer, undefined, 0, 0, Tick)
    /\ workers' = <<>> /\ threads' = <<>> /\ sockets' = <<>>
    /\ controls' = <<>> /\ timers' = <<>> /\ reply' = NoReply
    /\ http' = NoRequest
    /\ cpu' = ModuleLoaded(cpu.times)
    /\ UNCHANGED <<clientVars, handleVars, upload>>

\* The requests of clients: a create of a fingerprint the index does not
\* hold, a describe and a worker creation of any fingerprint.
createNew ==
    /\ \E hash \in Hashes : ~Includes(cachedBundledHashes, hash) /\ PostBundlesCreate(hash)
    /\ UNCHANGED <<clientVars, workerVars>>

describeAny ==
    /\ \E hash \in Fingerprints : GetBundle(hash)
    /\ UNCHANGED <<clientVars, workerVars>>

postWorkerAny ==
    /\ threads = <<>>
    /\ \E hash \in Fingerprints : PostWorker(hash, DefaultOptions, FALSE, NoHandle)
    /\ UNCHANGED <<clientVars, serverVars, handleVars, http, cpu>>

InitStartup ==
    /\ InitClientIdle
    /\ \E n \in 0 .. MaxStored : BundlesManagerOver(Artifacts(n))
    /\ res = NoResponse
    /\ upload = [h \in Hashes |-> NotUploaded]
    /\ WorkersManagerNew
    /\ http = NoRequest
    /\ cpu = ModuleLoaded(Idle)

NextStartup == createNew \/ describeAny \/ postWorkerAny \/ Restart

SpecStartup == InitStartup /\ [][NextStartup]_vars

\* ---------------------------------------------------- node startup: claims

NamesOf(dir) == {f.name : f \in dir}

\* The node has started again: no request answered since.
Starting == res'.tick # res.tick /\ res'.op = "none"

C31_Step ==
    /\ (Starting /\ Cardinality(tmpDir) > 10) =>
          /\ tmpDir' = {} /\ cachedBundledHashes' = <<>>
          /\ \A hash \in Fingerprints :
                /\ Describe(cachedBundledHashes', tmpDir', hash).status = 404
                /\ ~Includes(cachedBundledHashes', hash)
    /\ (Starting /\ Cardinality(tmpDir) <= 10) =>
          /\ tmpDir' = tmpDir
          /\ \A f \in tmpDir :
                /\ Describe(cachedBundledHashes', tmpDir', f.name) =
                      [status |-> 200, hash |-> f.name, size |-> Len(f.data)]
                /\ Includes(cachedBundledHashes', f.name)
    /\ Handled("describe") =>
          (res'.status = 404 <=> ~Includes(cachedBundledHashes, res'.hash))
    /\ Answered("POST /worker") =>
          (reply'.status = 400 <=> ~Includes(cachedBundledHashes, reply'.bundleHash))
    /\ ~Starting =>
          /\ NamesOf(tmpDir) \subseteq NamesOf(tmpDir')
          /\ Len(cachedBundledHashes) <= Len(cachedBundledHashes')
          /\ SubSeq(cachedBundledHashes', 1, Len(cachedBundledHashes)) = cachedBundledHashes

\* C31: a node that starts over a directory of more than 10 artifacts
\* deletes them all and has an empty index, so describe answers 404 and
\* worker creation 400 for every fingerprint; one that starts over 10 or
\* fewer deletes none, and each is in the index, described with its size and
\* accepted by worker creation.  No other step removes a file or an entry of
\* the index.
C31_StartupEviction == [][C31_Step]_vars

\* The node started again over ten artifacts and kept them: a worker was
\* created from the tenth.
C31_Witness ==
    /\ res.op = "none" /\ res.tick = 1
    /\ Cardinality(tmpDir) = 10
    /\ reply.op = "POST /worker" /\ reply.bundleHash = "s10" /\ reply.status = 200

\* --------------------------------------------------- error listeners: spec

\* How the caller attaches its listener of 'error'.
Callers == {"none", "on", "once"}

\* One worker launched on a node that holds the bundle h1, its caller
\* listening to 'error' in one of the three ways.
InitErrors ==
    /\ choicesBehavior = "random"
    /\ nodes = <<Launched1>>
    /\ _lastIndex = -1
    /\ spawns = <<>>
    /\ sampled = FALSE
    /\ \E caller \in Callers, hash \in Hashes :
          handles = <<[NewHandle(0, hash, DefaultOptions) EXCEPT !.caller = caller]>>
    /\ pipe = NoPipe
    /\ BundlesManagerOver({[name |-> "h1", data |-> <<1>>]})
    /\ res = NoResponse
    /\ upload = [h \in Hashes |-> NotUploaded]
    /\ WorkersManagerNew
    /\ http = NoRequest
    /\ cpu = ModuleLoaded(Idle)

NextErrors ==
    \/ request \/ respond \/ receive \/ disconnect
    \/ accept \/ controlClose
    \/ online \/ message \/ fault \/ exit

SpecErrors == InitErrors /\ [][NextErrors]_vars

\* -------------------------------------------------- error listeners: claims

\* A step in which handle k, launched, is handed an error record.
ReceivesError(k) ==
    /\ Receives(k)
    /\ Name(FirstLine(sockets[handles[k].socket].out)) = <<"error">>

\* A step in which the event stream of handle k, launched, is found
\* disconnected: line 480-481.
FindsDisconnected(k) == Disconnecting(k) /\ ~Truthy(handles[k].exitCode)

C32_Step ==
    \A k \in 1 .. Len(handles) :
        LET h == handles[k]
            error == IF ReceivesError(k)
                     THEN FromBase64(Value(FirstLine(sockets[h.socket].out)))
                     ELSE WorkerDisconnected
        IN  (ReceivesError(k) \/ FindsDisconnected(k)) =>
                IF h.caller = "none"
                THEN /\ handles'[k].thrown = Append(h.thrown, error)
                     /\ handles'[k].heard = h.heard
                ELSE /\ handles'[k].heard = Append(h.heard, error)
                     /\ handles'[k].thrown = h.thrown

\* C32: an error record or a disconnect of the event stream that reaches a
\* launched handle is thrown when the caller attached no listener of 'error';
\* when the caller attached one, the listener is called with it once and
\* nothing is thrown.  (A listener attached with once is called and the error
\* is thrown as well.)
C32_ErrorRaisedOrDelivered == [][C32_Step]_vars

\* -------------------------------------------------------- reconnection: spec

\* The handle of InitHandle, the event streams other clients attach to its
\* worker and the events of the child.
NextReconnect ==
    \/ request \/ respond \/ receive
    \/ accept \/ controlClose
    \/ getStreamsPipe
    \/ online \/ fault \/ exit

SpecReconnect == InitHandle /\ [][NextReconnect]_vars

\* ------------------------------------------------------ reconnection: claims

\* The thread of worker w has emitted 'error' or 'exit'.
Gone(w) == threads[w].status \in {"faulted", "exited"}

\* Control stream c is answered.
Answers(c) ==
    /\ c <= Len(controls)
    /\ controls[c].state = "requested"
    /\ controls'[c].state \in {"open", "refused"}

C33_Step ==
    /\ \A w \in 1 .. Len(threads') :
          threads'[w].status \in {"faulted", "exited"} => ~Find(workers', w)
    /\ (Answered("GET /worker/:id/streams-pipe") /\ reply'.status = 200) =>
          ~Gone(reply'.workerId)
    /\ \A c \in 1 .. Len(controls) :
          /\ (Answers(c) /\ Gone(controls[c].worker)) =>
                /\ controls'[c].state = "refused"
                /\ handles'[controls[c].handle].manuallyClosed
          /\ (controls[c].state = "refused" /\ controls'[c].state = "closed") =>
                Len(controls') = Len(controls)

\* C33: a worker whose thread has emitted 'error' or 'exit' is not in the
\* node's list, so GET /worker/:id/streams-pipe is not answered 200 for it and
\* a control stream, POST /worker/:id/streams-pipe, is answered 404; the
\* handle whose control stream is answered 404 sets manuallyClosed, and when
\* that connection closes it opens no other.
C33_GoneIs404 == [][C33_Step]_vars

\* The child exited and its control stream closed before the handle read the
\* exit record: the handle reconnected once, was answered 404, and stopped.
C33_Witness ==
    /\ Len(handles) = 1
    /\ handles[1].exitCode = NoCode /\ handles[1].socketOpen
    /\ handles[1].manuallyClosed
    /\ handles[1].id # NoId /\ threads[handles[1].id].status = "exited"
    /\ Len(controls) = 2
    /\ controls[1].state = "closed" /\ controls[2].state = "closed"

\* ------------------------------------------------------------ health: spec

\* Cores of the node, and what their counters count up to, all together.
MaxCores == 2
MaxTicks == 3

RECURSIVE Counted(_)
Counted(times) ==
    IF times = <<>> THEN 0
    ELSE Head(times).user + Head(times).sys + Head(times).idle + Counted(Tail(times))

\* A counter of a core advances.
advance ==
    /\ Counted(cpu.times) < MaxTicks
    /\ \E i \in 1 .. Len(cpu.times) :
          \/ cpu' = [cpu EXCEPT !.times[i].user = @ + 1]
          \/ cpu' = [cpu EXCEPT !.times[i].sys = @ + 1]
          \/ cpu' = [cpu EXCEPT !.times[i].idle = @ + 1]
    /\ UNCHANGED <<clientVars, serverVars, managerVars, handleVars, http>>

\* GET /health, with the credentials of the node.
health ==
    /\ Serve("GET /health", <<"Basic", " ", CredentialsBase64(<<"asdf", ":", "asdf">>)>>,
             "", FALSE)
    /\ UNCHANGED <<clientVars, handleVars>>

InitHealth ==
    /\ InitClientIdle
    /\ BundlesManagerOver({})
    /\ res = NoResponse
    /\ upload = [h \in Hashes |-> NotUploaded]
    /\ WorkersManagerNew
    /\ http = NoRequest
    /\ \E cores \in 1 .. MaxCores :
          cpu = ModuleLoaded([i \in 1 .. cores |-> Times(0, 0, 0)])

NextHealth == advance \/ health

SpecHealth == InitHealth /\ [][NextHealth]_vars

\* ---------------------------------------------------------- health: claims

\* A number in [0, 1].
InUnit(v) == v.total > 0 /\ 0 <= v.busy /\ v.busy <= v.total

\* getCPUUsage has returned in this step.
Measured == cpu'.times = cpu.times /\ cpu' # cpu

C34_Step ==
    Measured =>
        /\ Len(cpu'.usage) = Len(cpu.times) /\ Len(cpu'.usage) >= 1
        /\ cpu'.timesBefore = cpu.times
        /\ \A i \in 1 .. Len(cpu.times) :
              LET user == cpu.times[i].user - cpu.timesBefore[i].user
                  sys == cpu.times[i].sys - cpu.timesBefore[i].sys
                  idle == cpu.times[i].idle - cpu.timesBefore[i].idle
              IN  /\ InUnit(cpu'.usage[i])
                  /\ cpu'.usage[i].busy * (user + sys + idle) =
                        (user + sys) * cpu'.usage[i].total

\* C34: every getCPUUsage call returns one value per core, each a number in
\* [0, 1] equal to the busy share of the core's counter deltas since the call
\* before (since the module was loaded, for the first call), and makes the
\* current reading the baseline.  (A core none of whose counters advanced
\* since the baseline gets 1 - 0 / 0, which is NaN.)
C34_UsageInUnit == [][C34_Step]_vars

\* ------------------------------------------------------ control stream: spec

\* Calls of postMessage, terminate and stdin.write on a handle, one after
\* another.
MaxWrites == 2

posts ==
    /\ \E k \in 1 .. Len(handles) : handles[k].calls < MaxWrites /\ PostMessage(k)
    /\ UNCHANGED unchangedByHandle
stdinWrites ==
    /\ \E k \in 1 .. Len(handles) : handles[k].calls < MaxWrites /\ StdinWrite(k)
    /\ UNCHANGED unchangedByHandle
terminates ==
    /\ \E k \in 1 .. Len(handles) : handles[k].calls < MaxWrites /\ TerminateCall(k)
    /\ UNCHANGED unchangedByHandle

NextControl ==
    \/ request \/ respond
    \/ accept \/ data \/ controlClose
    \/ posts \/ stdinWrites \/ terminates
    \/ exit

SpecControl == InitHandle /\ [][NextControl]_vars

\* ---------------------------------------------------- control stream: claims

\* The control connections of handle k that have not closed.
Connections(k) ==
    {c \in 1 .. Len(controls) : controls[c].handle = k /\ controls[c].state # "closed"}

\* The records of handle k on their way: those sent on its connection and
\* not yet read by the node, then those _pipes[1] holds.
Pending(k) ==
    (IF handles[k].rs # 0 /\ controls[handles[k].rs].state # "closed"
     THEN controls[handles[k].rs].inbox ELSE <<>>) \o handles[k].piped

IsSuffix(s, t) == Len(s) <= Len(t) /\ SubSeq(t, Len(t) - Len(s) + 1, Len(t)) = s

CallRecords ==
    {Line("worker_message", Base64("ping")), StdinRecord, Line("terminate", "true")}

\* A call of handle k has written its record.
Writes(k) ==
    /\ handles'[k].calls = handles[k].calls + 1
    /\ handles'[k].call.outcome = "ok"

C35_Step ==
    /\ \A k \in 1 .. Len(handles) :
          /\ Cardinality(Connections(k)') <= 1
          /\ Connections(k)' \subseteq {handles'[k].rs}
          /\ IF Writes(k)
             THEN \E record \in CallRecords : Pending(k)' = Pending(k) \o record
             ELSE IsSuffix(Pending(k)', Pending(k))
    /\ \A c \in 1 .. Len(controls) :
          Reads(c) =>
              /\ c = handles[controls[c].handle].rs
              /\ controls[c].inbox = FirstLine(controls[c].inbox) \o <<NL>> \o controls'[c].inbox
              /\ threads'[controls[c].worker] =
                    ControlMessage(threads[controls[c].worker], FirstLine(controls[c].inbox))

\* C35: a handle has at most one control connection that has not closed, the
\* one it writes to.  The records of its calls form one queue: a call adds
\* its record at the end, once; the node reads the record at the front of
\* the connection and dispatches it once; a connection that closes takes
\* the records it still carried with it, and the records _pipes[1] held are
\* sent on the next connection, in the order written.
C35_OneWriterInOrder == [][C35_Step]_vars

\* Two calls and a reconnection between them: the child was posted the
\* message and then terminated, and nothing is left to send.
C35_Witness ==
    /\ Len(controls) = 2
    /\ controls[1].state = "closed"
    /\ controls[2].state = "open" /\ controls[2].inbox = <<>>
    /\ handles[1].rs = 2 /\ handles[1].piped = <<>>
    /\ handles[1].calls = 2 /\ handles[1].call = Call("terminate", "ok")
    /\ threads[1].received = <<"ping">>
    /\ threads[1].terminated

\* ------------------------------------------------------- upload race: spec

\* The spawnWorker calls of SpecUpload, and the POST /worker of the handles
\* they construct.
NextRace == NextUpload \/ request

SpecRace == InitUpload /\ [][NextRace]_vars

\* ----------------------------------------------------- upload race: claims

\* The file of the fingerprint holds an artifact of that fingerprint.
FullArtifact(dir, hash) ==
    /\ FilesNamed(dir, hash) # {}
    /\ FileData(dir, hash) \in Blobs
    /\ Sha1(FileData(dir, hash)) = hash

C36_Step ==
    (Answered("POST /worker") /\ reply'.status = 200) =>
        FullArtifact(tmpDir, reply'.bundleHash)

\* C36: whenever POST /worker is answered 200, the file the child is started
\* from holds the whole artifact of the fingerprint, in every interleaving of
\* two spawnWorker calls.  (A call that finds the slot the other has created
\* skips its upload and starts the child from the empty file.)
C36_RunsFullArtifact == [][C36_Step]_vars

\* ------------------------------------------------ bundle cache: more claims

\* A put_data has stored bytes under the fingerprint, and no create followed.
HoldsUpload(hash) == upload[hash].phase \in {"first", "second"}

C37_Step ==
    (Handled("create") /\ HoldsUpload(res'.hash)) =>
        /\ FileData(tmpDir', res'.hash) = upload[res'.hash].bytes
        /\ Describe(cachedBundledHashes', tmpDir', res'.hash) =
              Describe(cachedBundledHashes, tmpDir, res'.hash)

\* C37: a create(h) that follows a completed put_data(h, A) leaves the file of
\* h holding A, and describe(h) answering A's size.  (The code's create
\* writes the empty file over it.)
C37_CreateKeepsArtifact == [][C37_Step]_vars

\* ------------------------------------------------------ workers: more claims

C38_Step ==
    \A i \in 1 .. Len(sockets) :
        LET w == sockets[i].worker
        IN  (/\ Closing(i)
             /\ sockets[Creating(w)].exitOnRequestEnd
             /\ threads'[w].numOfConnectedSockets = 0
             /\ Running(threads'[w]) /\ ~threads'[w].terminated) =>
                \E t \in 1 .. Len(timers') : timers'[t].worker = w

\* C38: when the last event stream of a running worker that was created with
\* exitOnRequestEnd closes, whichever stream it is, a grace timer of the
\* worker is pending, which terminates it if no stream attaches.  (The
\* closure of a stream attached without the query flag sets no timer.)
C38_LastClosureTimed == [][C38_Step]_vars

\* ------------------------------------------------------ child events: spec

MaxEvents == 2

\* The bytes a child writes or posts.
Payloads == {"hi", "ping"}

writes ==
    /\ \E w \in 1 .. Len(threads), name \in {"stdout", "stderr"}, bytes \in Payloads :
          /\ Len(threads[w].emitted) < MaxEvents
          /\ Chunk(w, name, bytes)
    /\ UNCHANGED <<clientVars, serverVars, handleVars, http, cpu>>

sends ==
    /\ \E w \in 1 .. Len(threads), bytes \in Payloads :
          /\ Len(threads[w].emitted) < MaxEvents
          /\ Message(w, bytes)
    /\ UNCHANGED <<clientVars, serverVars, handleVars, http, cpu>>

\* One worker is created and event streams attach to it, none of them with
\* exitOnRequestEnd.
creates ==
    /\ threads = <<>>
    /\ PostWorker("h1", DefaultOptions, FALSE, Tap)
    /\ UNCHANGED <<clientVars, serverVars, handleVars, http, cpu>>

attaches ==
    /\ Len(sockets) < MaxSockets
    /\ \E id \in 1 .. Len(threads) : GetStreamsPipe(id, undefined, Tap)
    /\ UNCHANGED <<clientVars, serverVars, handleVars, http, cpu>>

NextEvents ==
    \/ creates \/ attaches \/ close
    \/ online \/ writes \/ sends

SpecEvents == InitWorkers /\ [][NextEvents]_vars

\* ---------------------------------------------------- child events: claims

ChildKinds == {"stdout", "stderr", "message"}

\* The records `name: value\n` of a stream's text, as <<name, value>>.
RecordsOf(out) == [j \in 1 .. Len(out) \div 5 |-> <<out[5 * j - 4], out[5 * j - 1]>>]

\* The records of one kind a stream was written, and the records of the
\* events of that kind in a part of what the child emitted.
KindWritten(i, kind) == SelectSeq(RecordsOf(sockets'[i].out), LAMBDA r : r[1] = kind)
KindEmitted(events, kind) ==
    LET of == SelectSeq(events, LAMBDA e : e.name = kind)
    IN  [j \in 1 .. Len(of) |-> <<kind, Base64(of[j].data)>>]

\* Stream i holds, of each kind, the records of a run of consecutive events
\* of its child, in the child's order.
InOrder(i) ==
    LET emitted == threads'[sockets'[i].worker].emitted
    IN  \E a \in 1 .. Len(emitted) + 1 : \E b \in a - 1 .. Len(emitted) :
            \A kind \in ChildKinds :
                KindWritten(i, kind) = KindEmitted(SubSeq(emitted, a, b), kind)

C39_Step ==
    /\ \A w \in 1 .. Len(threads) :
          Len(threads'[w].emitted) > Len(threads[w].emitted) =>
              LET e == Last(threads'[w].emitted)
              IN  /\ Len(sockets') = Len(sockets)
                  /\ \A i \in 1 .. Len(sockets) :
                        Added(i) = IF sockets[i].worker = w /\ sockets[i].state # "closed"
                                   THEN Line(e.name, Base64(e.data)) ELSE <<>>
    /\ Len(sockets') > Len(sockets) =>
          \A kind \in ChildKinds : KindWritten(Len(sockets'), kind) = <<>>
    /\ \A i \in 1 .. Len(sockets') : InOrder(i)

\* C39: every stdout, stderr or message event of a child is written once to
\* each event stream attached to it at that moment and to no other; each
\* stream holds the records of a kind in the child's order; a stream that
\* attaches holds no record of an earlier event.
C39_FanOutInOrder == [][C39_Step]_vars

\* Two events of one kind with different bytes; the first went to the one
\* stream attached then, the second to both streams attached by then.
C39_Witness ==
    \E i, j \in 1 .. Len(sockets) :
        /\ i # j /\ sockets[i].worker = sockets[j].worker
        /\ LET emitted == threads[sockets[i].worker].emitted
           IN  /\ Len(emitted) = 2
               /\ emitted[1].name = emitted[2].name /\ emitted[1].data # emitted[2].data
               /\ Len(SelectSeq(RecordsOf(sockets[i].out), LAMBDA r : r[1] \in ChildKinds)) = 2
               /\ Len(SelectSeq(RecordsOf(sockets[j].out), LAMBDA r : r[1] \in ChildKinds)) = 1

====
